---- MODULE Spec2Model ----
(***************************************************************************)
(* Model of scripts/laraveldaily_cleanup.py: the bulk cleaner of saved     *)
(* LaravelDaily lesson pages.                                              *)
(*                                                                         *)
(* Text is a sequence of tokens.  Every token is the literal piece of text *)
(* it stands for ("\n", "<!-- Breadcrumbs -->", "</nav>", "/", "#", ...), *)
(* so the text of a file is the concatenation of its tokens, and every     *)
(* regular expression of the script is an operator that matches token by   *)
(* token what the expression matches character by character.               *)
(***************************************************************************)
EXTENDS Integers, Sequences, FiniteSets, TLC

VARIABLES
    call,               \* the pending call of a function checked on its own
    ret,                \* its result
    argv,               \* main: the parsed command line
    files,              \* laraveldaily/*.html, sorted: files[i] is the text of file i
    outfiles,           \* the files of a separate --output-dir (<<>>: not written)
    original,           \* the corpus as it was when main started
    pc,                 \* main's position
    k,                  \* number of files the loop of main has processed
    url_to_filename,    \* the URL map main holds
    totals,             \* main's totals
    stats_log,          \* the FileChangeStats process_file returned, per file
    missing_breadcrumb, \* main's three lists of (file, count)
    missing_feedback,
    missing_comments,
    written,            \* the write_text calls of the current run, in order
    console,            \* the lines main printed
    failure,            \* the exception that ended the run ("" when none)
    requests            \* the requests made to the backend, with the file and the answer

pureVars == <<call, ret>>
mainVars == <<argv, files, outfiles, original, pc, k, url_to_filename, totals,
              stats_log, missing_breadcrumb, missing_feedback, missing_comments,
              written, console, failure, requests>>
vars == <<call, ret, argv, files, outfiles, original, pc, k, url_to_filename,
          totals, stats_log, missing_breadcrumb, missing_feedback, missing_comments,
          written, console, failure, requests>>

(***************************************************************************)
(* Tokens and the helpers shared by the expressions.                       *)
(***************************************************************************)
NL == "\n"
SP == " "
Whitespace == {NL, SP}

\* The text "https://laraveldaily.com/lesson/" that every lesson URL starts with.
LessonPrefix == "https://laraveldaily.com/lesson/"

\* A sequence given element by element, as the tuple of its elements.
Tokens(f) == SubSeq(f, 1, Len(f))

At(s, i) == IF i \in 1..Len(s) THEN s[i] ELSE ""

Contains(s, t) == \E i \in 1..Len(s) : s[i] = t

\* \s* from position i: the first position at or after i that holds no whitespace.
RECURSIVE WsRunEnd(_, _)
WsRunEnd(s, i) ==
    IF i <= Len(s) /\ s[i] \in Whitespace THEN WsRunEnd(s, i + 1) ELSE i

\* The last "\n" of s[i..j-1], 0 when there is none.
RECURSIVE LastNl(_, _, _)
LastNl(s, i, j) ==
    IF j <= i THEN 0
    ELSE IF s[j - 1] = NL THEN j - 1 ELSE LastNl(s, i, j - 1)

\* \s*\n from position i: the position after the match, 0 when it fails.
WsNlEnd(s, i) ==
    LET m == LastNl(s, i, WsRunEnd(s, i)) IN IF m = 0 THEN 0 ELSE m + 1

\* \s*\n\s* from position i: the position after the match, 0 when it fails.
WsNlWsEnd(s, i) ==
    LET e == WsRunEnd(s, i) IN IF LastNl(s, i, e) = 0 THEN 0 ELSE e

(***************************************************************************)
(* normalize_lesson_url                                                    *)
(***************************************************************************)
RECURSIVE LStrip(_)
LStrip(s) == IF s # <<>> /\ Head(s) \in Whitespace THEN LStrip(Tail(s)) ELSE s

RECURSIVE RStrip(_)
RStrip(s) ==
    IF s # <<>> /\ s[Len(s)] \in Whitespace THEN RStrip(SubSeq(s, 1, Len(s) - 1)) ELSE s

\* str.strip()
Strip(s) == RStrip(LStrip(s))

\* str.split("#", 1)[0]
RECURSIVE BeforeHash(_)
BeforeHash(s) ==
    IF s = <<>> \/ Head(s) = "#" THEN <<>> ELSE <<Head(s)>> \o BeforeHash(Tail(s))

\* url[:-1] of a URL that ends with "/".
DropSlash(s) ==
    IF s[Len(s)] = LessonPrefix
    THEN SubSeq(s, 1, Len(s) - 1) \o <<"https://laraveldaily.com/lesson">>
    ELSE SubSeq(s, 1, Len(s) - 1)

EndsWithSlash(s) == s # <<>> /\ s[Len(s)] \in {"/", LessonPrefix}

normalize_lesson_url_noslash(url) == BeforeHash(Strip(url))

normalize_lesson_url(url) ==
    LET stripped == Strip(url)
        cut == IF EndsWithSlash(stripped) THEN DropSlash(stripped) ELSE stripped
    IN BeforeHash(cut)

(***************************************************************************)
(* The block expressions.  Where an expression is compiled with re.I the   *)
(* tokens stand for the spelling the saved pages use.                      *)
(***************************************************************************)
BcMark == "<!-- Breadcrumbs -->"
BcNav == "<nav class=\"mb-6\" aria-label=\"Breadcrumb\">"
NavClose == "</nav>"
FbMark == "<!-- Feedback Modal -->"
FbButton == "<!-- Feedback Button -->"
DialogClose == "</dialog>"
CommentsMark == "<!-- Comments Section -->"
MainClose == "</main>"
NavRemovedMark == "<!-- Navigation removed -->"
LOCAL_NAV_MARKER == "<!-- Local Site Navigation (FDC) -->"
HeaderOpen == "<header class=\"sticky top-0 z-50 backdrop-blur bg-slate-950/70 border-b border-slate-800\">"
HeaderClose == "</header>"
DivClose == "</div>"
ScriptOpen == "<script>"
ScriptClose == "</script>"
LivewireSrcOpen == "<script src=\"./livewire.js\">"
EasymdeSrcOpen == "<script src=\"./easymde.min.js\">"
EasymdeCss == "<link rel=\"stylesheet\" href=\"./easymde.min.css\">"
LivewireInit == "window.livewire ="
WireDiv == "<div wire:id=\"x\">"
ToggleClick == "<button wire:click=\"toggleCompleted\">"
SpotlightDiv == "<div x-data=\"Spotlight.config("
WireEnd == "<!-- Livewire Component wire-end:x -->"

\* The first position at or after i that holds a token of T, 0 when there is none.
RECURSIVE First(_, _, _)
First(s, i, T) ==
    IF i > Len(s) THEN 0 ELSE IF s[i] \in T THEN i ELSE First(s, i + 1, T)

\* .*?<close>\s*\n from position i: the first `close` that a "\n" follows.
RECURSIVE LazyCloseNl(_, _, _)
LazyCloseNl(s, i, close) ==
    IF i > Len(s) THEN 0
    ELSE IF s[i] = close /\ WsNlEnd(s, i + 1) # 0 THEN WsNlEnd(s, i + 1)
    ELSE LazyCloseNl(s, i + 1, close)

\* \n\s*<mark>\s*\n\s*<open>.*?<close>\s*\n at position i.
MarkedBlockEnd(s, i, mark, open, close) ==
    IF At(s, i) # NL THEN 0
    ELSE LET j == WsRunEnd(s, i + 1) IN
         IF At(s, j) # mark THEN 0
         ELSE LET m == WsNlWsEnd(s, j + 1) IN
              IF m = 0 \/ At(s, m) # open THEN 0
              ELSE LazyCloseNl(s, m + 1, close)

BREADCRUMB_BLOCK_RE(s, i) == MarkedBlockEnd(s, i, BcMark, BcNav, NavClose)

FEEDBACK_MARKUP_RE(s, i) == MarkedBlockEnd(s, i, FbMark, FbButton, DialogClose)

LOCAL_NAV_BLOCK_RE(s, i) == MarkedBlockEnd(s, i, LOCAL_NAV_MARKER, HeaderOpen, HeaderClose)

\* \n\s*<!-- Navigation removed -->\s*\n
NAV_REMOVED_RE(s, i) ==
    IF At(s, i) # NL THEN 0
    ELSE LET j == WsRunEnd(s, i + 1) IN
         IF At(s, j) # NavRemovedMark THEN 0 ELSE WsNlEnd(s, j + 1)

\* .*?(?=\n\s*</main>) from position i: the first "\n" that only whitespace
\* separates from </main>; the match ends before it.
RECURSIVE LazyBeforeMainClose(_, _)
LazyBeforeMainClose(s, i) ==
    IF i > Len(s) THEN 0
    ELSE IF s[i] = NL /\ At(s, WsRunEnd(s, i + 1)) = MainClose THEN i
    ELSE LazyBeforeMainClose(s, i + 1)

\* The expression without its lookahead: \n\s*<!-- Comments Section -->.*?\n\s*</main>
COMMENTS_SECTION_RE_consuming(s, i) ==
    IF At(s, i) # NL THEN 0
    ELSE LET j == WsRunEnd(s, i + 1) IN
         IF At(s, j) # CommentsMark \/ LazyBeforeMainClose(s, j + 1) = 0 THEN 0
         ELSE WsRunEnd(s, LazyBeforeMainClose(s, j + 1) + 1) + 1

\* \n\s*<!-- Comments Section -->.*?(?=\n\s*</main>)
COMMENTS_SECTION_RE(s, i) ==
    IF At(s, i) # NL THEN 0
    ELSE LET j == WsRunEnd(s, i + 1) IN
         IF At(s, j) # CommentsMark THEN 0 ELSE LazyBeforeMainClose(s, j + 1)

\* \n\s*</div>\s*\n\s*<!-- Livewire Component wire-end:... -->\s* at position p.
WireTailEnd(s, p) ==
    IF At(s, p) # NL THEN 0
    ELSE LET d == WsRunEnd(s, p + 1) IN
         IF At(s, d) # DivClose THEN 0
         ELSE LET w == WsNlWsEnd(s, d + 1) IN
              IF w = 0 \/ At(s, w) # WireEnd THEN 0 ELSE WsRunEnd(s, w + 1)

RECURSIVE LazyWireTail(_, _)
LazyWireTail(s, p) ==
    IF p > Len(s) THEN 0
    ELSE IF WireTailEnd(s, p) # 0 THEN WireTailEnd(s, p) ELSE LazyWireTail(s, p + 1)

\* \n\s*<div wire:id="..">.*?wire:click="toggleCompleted".*?\n\s*</div>\s*\n\s*<!--
\* Livewire Component wire-end:..-->\s*
LIVEWIRE_COMPLETED_BUTTON_RE(s, i) ==
    IF At(s, i) # NL THEN 0
    ELSE LET j == WsRunEnd(s, i + 1) IN
         IF At(s, j) # WireDiv THEN 0
         ELSE LET c == First(s, j + 1, {ToggleClick}) IN
              IF c = 0 THEN 0 ELSE LazyWireTail(s, c + 1)

\* \n\s*</div>\s*\n\s*</div>\s*\n\s*<!-- Livewire Component wire-end:... -->\s* at p.
SpotlightTailEnd(s, p) ==
    IF At(s, p) # NL THEN 0
    ELSE LET d == WsRunEnd(s, p + 1) IN
         IF At(s, d) # DivClose THEN 0
         ELSE LET d2 == WsNlWsEnd(s, d + 1) IN
              IF d2 = 0 \/ At(s, d2) # DivClose THEN 0
              ELSE LET w == WsNlWsEnd(s, d2 + 1) IN
                   IF w = 0 \/ At(s, w) # WireEnd THEN 0 ELSE WsRunEnd(s, w + 1)

RECURSIVE LazySpotlightTail(_, _)
LazySpotlightTail(s, p) ==
    IF p > Len(s) THEN 0
    ELSE IF SpotlightTailEnd(s, p) # 0 THEN SpotlightTailEnd(s, p)
    ELSE LazySpotlightTail(s, p + 1)

\* \n\s*<div wire:id="..">\s*\n\s*<div ... x-data="Spotlight.config(.*?\n\s*</div>\s*
\* \n\s*</div>\s*\n\s*<!-- Livewire Component wire-end:..-->\s*
SPOTLIGHT_OVERLAY_RE(s, i) ==
    IF At(s, i) # NL THEN 0
    ELSE LET j == WsRunEnd(s, i + 1) IN
         IF At(s, j) # WireDiv THEN 0
         ELSE LET m == WsNlWsEnd(s, j + 1) IN
              IF m = 0 \/ At(s, m) # SpotlightDiv THEN 0
              ELSE LazySpotlightTail(s, m + 1)

ScriptOpens == {ScriptOpen, LivewireSrcOpen, EasymdeSrcOpen}

\* <script\b[^>]*>.*?</script>
SCRIPT_BLOCK_RE(s, i) ==
    IF At(s, i) \notin ScriptOpens THEN 0
    ELSE LET c == First(s, i + 1, {ScriptClose}) IN IF c = 0 THEN 0 ELSE c + 1

\* \s*<script src="./...livewire.js"...></script>\s*
LIVEWIRE_SCRIPT_SRC_RE(s, i) ==
    LET j == WsRunEnd(s, i) IN
    IF At(s, j) = LivewireSrcOpen /\ At(s, j + 1) = ScriptClose
    THEN WsRunEnd(s, j + 2) ELSE 0

\* \s*<script\b[^>]*>\s*window\.livewire\s*=.*?</script>\s*
LIVEWIRE_INIT_SCRIPT_RE(s, i) ==
    LET j == WsRunEnd(s, i) IN
    IF At(s, j) \notin ScriptOpens THEN 0
    ELSE LET w == WsRunEnd(s, j + 1) IN
         IF At(s, w) # LivewireInit THEN 0
         ELSE LET c == First(s, w + 1, {ScriptClose}) IN
              IF c = 0 THEN 0 ELSE WsRunEnd(s, c + 1)

\* <script src="./...easymde(.min).js"...>\s*</script>
EASYMDE_JS_RE(s, i) ==
    IF At(s, i) # EasymdeSrcOpen THEN 0
    ELSE LET j == WsRunEnd(s, i + 1) IN IF At(s, j) = ScriptClose THEN j + 1 ELSE 0

\* <link ... href="./...easymde(.min).css"...>
EASYMDE_CSS_RE(s, i) == IF At(s, i) = EasymdeCss THEN i + 1 ELSE 0

(***************************************************************************)
(* ensure_local_site_nav, remove_script_blocks_containing                  *)
(***************************************************************************)
NavDiv == "<div class=\"max-w-7xl mx-auto px-4 py-3 flex items-center justify-between\">"
\* Lines 122-128 of the template: the brand link, the opening <nav class="text-sm ...">
\* and its five links.
NavBody == "<a href=\"../index.html\" class=\"font-semibold tracking-tight\">FDC</a> <nav class=\"text-sm flex gap-4 flex-wrap justify-end\"> <a href=\"../dashboard.html\">Dashboard</a> ..."

LOCAL_NAV_HTML ==
    <<NL, LOCAL_NAV_MARKER, NL, HeaderOpen, NL,
      SP, SP, NavDiv, NL,
      SP, SP, SP, SP, NavBody, NL,
      SP, SP, SP, SP, NavClose, NL,
      SP, SP, DivClose, NL,
      HeaderClose, NL, NL>>

\* `needle in block`: the tokens that hold the needle as a piece of their text.
TokensWith(needle) ==
    IF needle = "EasyMDE" THEN {"EasyMDE", "loadEasyMDE"} ELSE {needle}

HasNeedle(s, i, e, needles) ==
    \E p \in i..(e - 1) : \E needle \in needles : s[p] \in TokensWith(needle)

CommentEditorNeedles ==
    {"Laravel Comments scripts were loaded", "EasyMDE", "loadEasyMDE",
     "Alpine.data(\"compose\""}

(***************************************************************************)
(* The saved-from marker, the URL map and the link rewriter.  A lesson URL *)
(* is LessonPrefix followed by the characters of its path.                 *)
(***************************************************************************)
SavedFromOpen == "<!-- saved from url=(0049)"
CommentClose == "-->"
HrefQ == "href=\""
Q == "\""
\* [^"#?\s]: the characters of a URL path.
PathChars == {"a", "b", "c", "x", "/"}
\* [^\s]: the characters of a URL.
UrlChars == PathChars \cup {"#", "?"}
\* [^"], in an href.
SuffixChars == UrlChars \cup Whitespace

\* The first position at or after i that holds no token of T.
RECURSIVE RunEnd(_, _, _)
RunEnd(s, i, T) == IF i <= Len(s) /\ s[i] \in T THEN RunEnd(s, i + 1, T) ELSE i

\* <!--\s*saved from url=\(\d+\)(https?://laraveldaily\.com/lesson/[^\s]+)\s*-->
SAVED_FROM_LESSON_URL_RE(s, i) ==
    IF At(s, i) # SavedFromOpen \/ At(s, i + 1) # LessonPrefix THEN 0
    ELSE LET u == RunEnd(s, i + 2, UrlChars) IN
         IF u = i + 2 \/ At(s, WsRunEnd(s, u)) # CommentClose THEN 0
         ELSE WsRunEnd(s, u) + 1

\* re.search: the position of the first match, 0 when there is none.
RECURSIVE SavedFromSearch(_, _)
SavedFromSearch(s, i) ==
    IF i > Len(s) THEN 0
    ELSE IF SAVED_FROM_LESSON_URL_RE(s, i) # 0 THEN i ELSE SavedFromSearch(s, i + 1)

\* extract_lesson_url_from_file: found = FALSE stands for the ValueError.
extract_lesson_url_from_file(html) ==
    LET m == SavedFromSearch(html, 1) IN
    IF m = 0 THEN [found |-> FALSE, url |-> <<>>]
    ELSE [found |-> TRUE,
          url |-> normalize_lesson_url(
                      SubSeq(html, m + 1, RunEnd(html, m + 2, UrlChars) - 1))]

\* Path.name of the files of laraveldaily/, in sorted order.
FileNames ==
    <<"a.html", "b.html", "c.html", "d.html", "e.html", "f.html", "g.html",
      "h.html", "i.html", "j.html", "k.html", "l.html", "m.html", "n.html">>

FileName(i) == FileNames[i]

MapGet(m, url) == IF url \in DOMAIN m THEN m[url] ELSE ""

MapPut(m, url, name) ==
    [x \in (DOMAIN m) \cup {url} |-> IF x = url THEN name ELSE m[x]]

DuplicateUrl_unchecked(m, url, name) == FALSE

\* `existing is not None and existing != path.name`
DuplicateUrl(m, url, name) == url \in DOMAIN m /\ m[url] # name

\* build_lesson_url_map, from file i on with the map m built so far.
RECURSIVE BuildFrom(_, _, _)
BuildFrom(fs, i, m) ==
    IF i > Len(fs) THEN [ok |-> TRUE, map |-> m, error |-> "", file |-> 0]
    ELSE LET u == extract_lesson_url_from_file(fs[i]) IN
         IF ~u.found
         THEN [ok |-> FALSE, map |-> m, file |-> i,
               error |-> "ValueError: Could not find saved-from lesson URL"]
         ELSE IF DuplicateUrl(m, u.url, FileName(i))
         THEN [ok |-> FALSE, map |-> m, file |-> i,
               error |-> "ValueError: Duplicate lesson URL mapping"]
         ELSE BuildFrom(fs, i + 1, MapPut(m, u.url, FileName(i)))

build_lesson_url_map(fs) == BuildFrom(fs, 1, <<>>)

\* href="(https?://laraveldaily\.com/lesson/[^"#?\s]+)([^"]*)"
HrefBaseEnd(s, i) == RunEnd(s, i + 2, PathChars)

HREF_LESSON_URL_RE(s, i) ==
    IF At(s, i) # HrefQ \/ At(s, i + 1) # LessonPrefix THEN 0
    ELSE LET b == HrefBaseEnd(s, i) IN
         IF b = i + 2 THEN 0
         ELSE LET q == RunEnd(s, b, SuffixChars) IN
              IF At(s, q) = Q THEN q + 1 ELSE 0

\* match.group(1) and match.group(2) of the match s[i..e-1].
HrefBase(s, i) == SubSeq(s, i + 1, HrefBaseEnd(s, i) - 1)

HrefSuffix(s, i, e) == SubSeq(s, HrefBaseEnd(s, i), e - 2)

SamePageAnchor_any(base_url, suffix, current_lesson_url) ==
    base_url = current_lesson_url

\* `base_url == current_lesson_url and suffix.startswith("#")`
SamePageAnchor(base_url, suffix, current_lesson_url) ==
    base_url = current_lesson_url /\ suffix # <<>> /\ Head(suffix) = "#"

\* repl of rewrite_lesson_links.
HrefRepl(s, i, e, current_lesson_url, map) ==
    LET base_url == normalize_lesson_url(HrefBase(s, i))
        suffix == HrefSuffix(s, i, e)
        filename == MapGet(map, base_url)
    IN IF filename = "" THEN SubSeq(s, i, e - 1)
       ELSE IF SamePageAnchor(base_url, suffix, current_lesson_url)
       THEN <<HrefQ>> \o suffix \o <<Q>>
       ELSE <<HrefQ, filename>> \o suffix \o <<Q>>

(***************************************************************************)
(* translate_ui_to_dutch.  A literal UI string is one token (the text the  *)
(* rule's pattern matches, in the spelling of the saved pages); the        *)
(* reading-time phrases are spelled out: digits, "h", "min", "read".       *)
(***************************************************************************)
UiLiterals ==
    << <<">Skip to main content<", ">Ga naar hoofdinhoud<">>,
       <<"aria-label=\"Previous lesson\"", "aria-label=\"Vorige les\"">>,
       <<"aria-label=\"Next lesson\"", "aria-label=\"Volgende les\"">>,
       <<"<div class=\"text-xs text-gray-400 mb-1\">Previous</div>",
         "<div class=\"text-xs text-gray-400 mb-1\">Vorige</div>">>,
       <<"<div class=\"text-xs text-gray-400 mb-1\">Next</div>",
         "<div class=\"text-xs text-gray-400 mb-1\">Volgende</div>">>,
       <<"<span class=\"text-sm text-gray-300\">Autoplay</span>",
         "<span class=\"text-sm text-gray-300\">Automatisch afspelen</span>">>,
       <<"'Hide Lessons List'", "'Verberg lessenlijst'">>,
       <<"'Show Lessons List'", "'Toon lessenlijst'">>,
       <<"&#39;Hide Lessons List&#39;", "&#39;Verberg lessenlijst&#39;">>,
       <<"&#39;Show Lessons List&#39;", "&#39;Toon lessenlijst&#39;">>,
       <<"Hide Lessons List", "Verberg lessenlijst">>,
       <<"Show Lessons List", "Toon lessenlijst">>,
       <<"aria-label=\"Scroll to top\"", "aria-label=\"Naar boven\"">>,
       <<"aria-label=\"Copy to Clipboard\"", "aria-label=\"Kopieer naar klembord\"">>,
       <<"title=\"Copy to Clipboard\"", "title=\"Kopieer naar klembord\"">>,
       <<"<span>Lesson 09/26</span>", "<span>Les 09/26</span>">> >>

\* One literal rule: html.count(old) and html.replace(old, new).
ReplaceToken(html, old, new) ==
    [out |-> Tokens([i \in 1..Len(html) |-> IF html[i] = old THEN new ELSE html[i]]),
     n |-> Cardinality({i \in 1..Len(html) : html[i] = old})]

\* The literal rules from rule r on, in the order of the source.
RECURSIVE TranslateLiterals(_, _)
TranslateLiterals(html, r) ==
    IF r > Len(UiLiterals) THEN [out |-> html, n |-> 0]
    ELSE LET one == ReplaceToken(html, UiLiterals[r][1], UiLiterals[r][2])
             rest == TranslateLiterals(one.out, r + 1)
         IN [n |-> one.n + rest.n, out |-> rest.out]

\* \d+: a number is a run of digit tokens.
Digits == {"0", "1", "2", "56"}
ReadingSpan == "<span class=\"text-xs text-gray-400 flex-shrink-0\">"
SpanClose == "</span>"

\* The tokens whose first or last character is a word character (\w); \b holds
\* between a word character and anything else.
WordTokens ==
    Digits \cup {"a", "b", "c", "x", "n", "h", "u", "min", "read", "leestijd",
                 "Hello", "World", "Hallo", "Wereld", "LongText", "LangeTekst",
                 "feedbackModal", "feedbackForm", "EasyMDE", "loadEasyMDE",
                 "Laravel Comments scripts were loaded", "Hide Lessons List",
                 "Show Lessons List", "Verberg lessenlijst", "Toon lessenlijst"}
                \cup {FileNames[i] : i \in 1..Len(FileNames)}
StartsWithWordChar(t) ==
    t \in WordTokens \cup {LessonPrefix, HrefQ, LivewireInit, "Alpine.data(\"compose\"",
                           "https://laraveldaily.com/lesson"}
                     \cup {UiLiterals[r][c] : r \in {2, 3, 13, 14, 15}, c \in {1, 2}}
EndsWithWordChar(t) == t \in WordTokens \cup {"https://laraveldaily.com/lesson"}

\* (\d+)\s*min\s+<word> from position i: the position after <word>, 0 when it fails.
MinutesEnd(s, i, word) ==
    LET d == RunEnd(s, i, Digits) IN
    IF d = i THEN 0
    ELSE LET m == WsRunEnd(s, d) IN
         IF At(s, m) # "min" THEN 0
         ELSE LET w == WsRunEnd(s, m + 1) IN
              IF w = m + 1 \/ At(s, w) # word THEN 0 ELSE w + 1

NumberAt(s, i) == SubSeq(s, i, RunEnd(s, i, Digits) - 1)

\* (<span class="text-xs text-gray-400 flex-shrink-0">)\s*(\d+)\s*min\s+read\s*(</span>)
SIDEBAR_READ_RE(s, i) ==
    IF At(s, i) # ReadingSpan THEN 0
    ELSE LET e == MinutesEnd(s, WsRunEnd(s, i + 1), "read") IN
         IF e = 0 \/ At(s, WsRunEnd(s, e)) # SpanClose THEN 0
         ELSE WsRunEnd(s, e) + 1

SidebarReadRepl(s, i, e) ==
    <<ReadingSpan>> \o NumberAt(s, WsRunEnd(s, i + 1))
        \o <<SP, "min", SP, "leestijd", SpanClose>>

\* \b(\d+)\s*min\s+read\b
MIN_READ_RE(s, i) ==
    IF EndsWithWordChar(At(s, i - 1)) THEN 0
    ELSE LET e == MinutesEnd(s, i, "read") IN
         IF e = 0 \/ StartsWithWordChar(At(s, e)) THEN 0 ELSE e

MinReadRepl(s, i, e) == NumberAt(s, i) \o <<SP, "min", SP, "leestijd">>

\* The position of the minutes of \b(\d+)\s*h\s+(\d+)..., 0 when it fails.
HourMinutesAt(s, i) ==
    LET d == RunEnd(s, i, Digits) IN
    IF d = i \/ EndsWithWordChar(At(s, i - 1)) THEN 0
    ELSE LET h == WsRunEnd(s, d) IN
         IF At(s, h) # "h" THEN 0
         ELSE LET g == WsRunEnd(s, h + 1) IN IF g = h + 1 THEN 0 ELSE g

HourEnd(s, i, word) ==
    LET g == HourMinutesAt(s, i) IN
    IF g = 0 THEN 0
    ELSE LET e == MinutesEnd(s, g, word) IN
         IF e = 0 \/ StartsWithWordChar(At(s, e)) THEN 0 ELSE e

\* \b(\d+)\s*h\s+(\d+)\s*min\s+read\b
HOUR_READ_RE(s, i) == HourEnd(s, i, "read")

HOUR_LEESTIJD_RE_never(s, i) == 0

\* \b(\d+)\s*h\s+(\d+)\s*min\s+leestijd\b
HOUR_LEESTIJD_RE(s, i) == HourEnd(s, i, "leestijd")

HourRepl(s, i, e) ==
    NumberAt(s, i) \o <<SP, "u", SP>> \o NumberAt(s, HourMinutesAt(s, i))
        \o <<SP, "min", SP, "leestijd">>

(***************************************************************************)
(* re.subn.  A compiled expression is named by the name the script gives   *)
(* it; the four reading-time expressions of translate_ui_to_dutch, which   *)
(* the script does not name, are SIDEBAR_READ_RE, MIN_READ_RE,             *)
(* HOUR_READ_RE and HOUR_LEESTIJD_RE.  env holds what the replacement      *)
(* functions close over.                                                   *)
(***************************************************************************)
NoEnv == [needles |-> {}, current_lesson_url |-> <<>>, url_to_filename |-> <<>>]

\* pattern.match(s, i): the position after the match that starts at i, 0 when none.
MatchEnd(re, s, i) ==
    CASE re = "BREADCRUMB_BLOCK_RE" -> BREADCRUMB_BLOCK_RE(s, i)
      [] re = "FEEDBACK_MARKUP_RE" -> FEEDBACK_MARKUP_RE(s, i)
      [] re = "LOCAL_NAV_BLOCK_RE" -> LOCAL_NAV_BLOCK_RE(s, i)
      [] re = "NAV_REMOVED_RE" -> NAV_REMOVED_RE(s, i)
      [] re = "COMMENTS_SECTION_RE" -> COMMENTS_SECTION_RE(s, i)
      [] re = "LIVEWIRE_COMPLETED_BUTTON_RE" -> LIVEWIRE_COMPLETED_BUTTON_RE(s, i)
      [] re = "SPOTLIGHT_OVERLAY_RE" -> SPOTLIGHT_OVERLAY_RE(s, i)
      [] re = "SCRIPT_BLOCK_RE" -> SCRIPT_BLOCK_RE(s, i)
      [] re = "LIVEWIRE_SCRIPT_SRC_RE" -> LIVEWIRE_SCRIPT_SRC_RE(s, i)
      [] re = "LIVEWIRE_INIT_SCRIPT_RE" -> LIVEWIRE_INIT_SCRIPT_RE(s, i)
      [] re = "EASYMDE_JS_RE" -> EASYMDE_JS_RE(s, i)
      [] re = "EASYMDE_CSS_RE" -> EASYMDE_CSS_RE(s, i)
      [] re = "HREF_LESSON_URL_RE" -> HREF_LESSON_URL_RE(s, i)
      [] re = "SIDEBAR_READ_RE" -> SIDEBAR_READ_RE(s, i)
      [] re = "MIN_READ_RE" -> MIN_READ_RE(s, i)
      [] re = "HOUR_READ_RE" -> HOUR_READ_RE(s, i)
      [] re = "HOUR_LEESTIJD_RE" -> HOUR_LEESTIJD_RE(s, i)

\* The repl the script passes with the expression, applied to the match s[i..e-1].
Replacement(re, env, s, i, e) ==
    CASE re \in {"EASYMDE_JS_RE", "EASYMDE_CSS_RE"} -> <<>>
      [] re \in {"LOCAL_NAV_BLOCK_RE", "NAV_REMOVED_RE"} -> <<NL>> \o LOCAL_NAV_HTML
      [] re = "SCRIPT_BLOCK_RE" ->
            IF HasNeedle(s, i, e, env.needles) THEN <<>> ELSE SubSeq(s, i, e - 1)
      [] re = "HREF_LESSON_URL_RE" ->
            HrefRepl(s, i, e, env.current_lesson_url, env.url_to_filename)
      [] re = "SIDEBAR_READ_RE" -> SidebarReadRepl(s, i, e)
      [] re = "MIN_READ_RE" -> MinReadRepl(s, i, e)
      [] re \in {"HOUR_READ_RE", "HOUR_LEESTIJD_RE"} -> HourRepl(s, i, e)
      [] OTHER -> <<NL>>

\* What the caller counts: `removed += 1` and `rewritten += 1` of the two replacement
\* functions, and every match for the other expressions.
Counted(re, env, s, i, e) ==
    CASE re = "SCRIPT_BLOCK_RE" -> HasNeedle(s, i, e, env.needles)
      [] re = "HREF_LESSON_URL_RE" ->
            MapGet(env.url_to_filename, normalize_lesson_url(HrefBase(s, i))) # ""
      [] OTHER -> TRUE

\* pattern.search(s, j): the start of the leftmost match at or after j, 0 when none.
RECURSIVE FindFrom(_, _, _)
FindFrom(re, s, j) ==
    IF j > Len(s) THEN 0
    ELSE IF MatchEnd(re, s, j) > j THEN j ELSE FindFrom(re, s, j + 1)

\* The match s[m..e-1] replaced and counted, between s[i..m-1] and the rest r of the
\* substitution.
Spliced(re, env, s, i, m, e, r) ==
    [out |-> SubSeq(s, i, m - 1) \o Replacement(re, env, s, m, e) \o r.out,
     n |-> r.n + (IF Counted(re, env, s, m, e) THEN 1 ELSE 0)]

\* The substitution of s[i..] when c matches were replaced already; count=0 of re.subn
\* means no limit.
RECURSIVE SubFrom(_, _, _, _, _, _)
SubMatch(re, env, s, limit, i, c, m, e) ==
    Spliced(re, env, s, i, m, e, SubFrom(re, env, s, limit, e, c + 1))

SubAt(re, env, s, limit, i, c, m) ==
    IF m = 0 THEN [out |-> SubSeq(s, i, Len(s)), n |-> 0]
    ELSE SubMatch(re, env, s, limit, i, c, m, MatchEnd(re, s, m))

SubFrom(re, env, s, limit, i, c) ==
    SubAt(re, env, s, limit, i, c,
          IF limit = 0 \/ c < limit THEN FindFrom(re, s, i) ELSE 0)

\* pattern.subn(repl, s, count=limit): the leftmost non-overlapping matches, at most
\* `limit` of them, each replaced.
subn(re, env, s, limit) == SubFrom(re, env, s, limit, 1, 0)

ensure_local_site_nav(html) ==
    subn(IF Contains(html, LOCAL_NAV_MARKER) THEN "LOCAL_NAV_BLOCK_RE"
         ELSE "NAV_REMOVED_RE",
         NoEnv, html, 1)

remove_script_blocks_containing(html, needles) ==
    subn("SCRIPT_BLOCK_RE", [NoEnv EXCEPT !.needles = needles], html, 0)

remove_feedback_scripts(html) ==
    remove_script_blocks_containing(html, {"feedbackModal", "feedbackForm"})

rewrite_lesson_links(html, current_lesson_url, map) ==
    subn("HREF_LESSON_URL_RE",
         [NoEnv EXCEPT !.current_lesson_url = current_lesson_url,
                       !.url_to_filename = map],
         html, 0)

\* The reading-time rules of translate_ui_to_dutch, in the order of the source.
ReadingRules == <<"SIDEBAR_READ_RE", "MIN_READ_RE", "HOUR_READ_RE", "HOUR_LEESTIJD_RE">>

\* `html, n = pattern.subn(...); count += n`
Counting(r, sub) == [n |-> r.n + sub.n, out |-> sub.out]

RECURSIVE TranslateReading(_, _)
TranslateReading(r, rule) ==
    IF rule > Len(ReadingRules) THEN r
    ELSE TranslateReading(Counting(r, subn(ReadingRules[rule], NoEnv, r.out, 0)),
                          rule + 1)

translate_ui_to_dutch(html) == TranslateReading(TranslateLiterals(html, 1), 1)

(***************************************************************************)
(* DeepLTranslator.translate_texts.  A text is a sequence of tokens; the   *)
(* backend is the environment: for every request it picks how it answers.  *)
(***************************************************************************)
max_items == 40
max_chars == 12000

\* A paragraph of max_chars characters, and its translation.
LongText == "LongText"

\* len() of the text of one token of a text node.
CharLen(t) ==
    CASE t = LongText -> max_chars
      [] t \in {"Hello", "World", "Hallo"} -> 5
      [] t = "Wereld" -> 6
      [] t = "LangeTekst" -> max_chars
      [] OTHER -> 1

RECURSIVE TextLen(_)
TextLen(text) == IF text = <<>> THEN 0 ELSE CharLen(Head(text)) + TextLen(Tail(text))

\* batches(values): values[i..] appended to the batches `out` and the open `current`.
RECURSIVE BatchesFrom(_, _, _, _, _)
BatchesFrom(values, i, out, current, current_chars) ==
    IF i > Len(values)
    THEN IF current # <<>> THEN Append(out, current) ELSE out
    ELSE LET value_len == TextLen(values[i]) IN
         IF current # <<>>
            /\ (Len(current) >= max_items \/ current_chars + value_len > max_chars)
         THEN BatchesFrom(values, i + 1, Append(out, current), <<values[i]>>, value_len)
         ELSE BatchesFrom(values, i + 1, out, Append(current, values[i]),
                          current_chars + value_len)

batches(values) == BatchesFrom(values, 1, <<>>, <<>>, 0)

\* What a backend that keeps its contract answers for one token.
TranslateToken(t) ==
    CASE t = "Hello" -> "Hallo"
      [] t = "World" -> "Wereld"
      [] t = LongText -> "LangeTekst"
      [] OTHER -> t

Translation(text) == Tokens([i \in 1..Len(text) |-> TranslateToken(text[i])])

\* The ways the backend answers a request.
ReplyKinds == {"ok", "short", "long", "nondict", "http_error", "url_error", "malformed"}

\* The "translations" list of the payload: one entry per text when the backend keeps
\* its contract, one fewer ("short"), one more ("long"), or with an entry that is
\* no object ("nondict").
ReplyItems(kind, batch) ==
    LET good == Tokens([i \in 1..Len(batch) |->
                           [dict |-> TRUE, text |-> Translation(batch[i])]])
    IN CASE kind = "short" -> Tail(good)
         [] kind = "long" -> Append(good, [dict |-> TRUE, text |-> <<"Hallo">>])
         [] kind = "nondict" -> <<[dict |-> FALSE, text |-> <<>>]>> \o Tail(good)
         [] OTHER -> good

ReplyError(kind) ==
    CASE kind = "http_error" -> "RuntimeError: DeepL API error"
      [] kind = "url_error" -> "RuntimeError: DeepL API connection error"
      [] kind = "malformed" -> "RuntimeError: Unexpected DeepL response format (missing translations)"
      [] OTHER -> ""

\* [t.get("text", "") for t in translations if isinstance(t, dict)]
RECURSIVE DictTexts(_)
DictTexts(items) ==
    IF items = <<>> THEN <<>>
    ELSE (IF Head(items).dict THEN <<Head(items).text>> ELSE <<>>) \o DictTexts(Tail(items))

\* The loop over the batches from batch b on; replies[b] is the backend's answer to
\* the request of batch b.  sent counts the requests made.
RECURSIVE TranslateBatches(_, _, _, _)
TranslateBatches(bs, replies, b, results) ==
    IF b > Len(bs) THEN [error |-> "", results |-> results, sent |-> Len(bs)]
    ELSE IF ReplyError(replies[b]) # ""
    THEN [error |-> ReplyError(replies[b]), results |-> results, sent |-> b]
    ELSE TranslateBatches(bs, replies, b + 1,
                          results \o DictTexts(ReplyItems(replies[b], bs[b])))

CountMismatch(results, texts) == Len(results) # Len(texts)

translate_texts(texts, replies) ==
    IF texts = <<>> THEN [error |-> "", results |-> <<>>, sent |-> 0]
    ELSE LET r == TranslateBatches(batches(texts), replies, 1, <<>>) IN
         IF r.error # "" THEN r
         ELSE IF CountMismatch(r.results, texts)
         THEN [error |-> "RuntimeError: DeepL returned a wrong number of translations",
               results |-> r.results, sent |-> r.sent]
         ELSE r

(***************************************************************************)
(* translate_lesson_body_to_dutch.  BeautifulSoup(article_inner,           *)
(* "html.parser") is the walk below: a stack of the open elements, one     *)
(* text node per run of text between two tags, character references        *)
(* decoded, a run of whitespace outside <pre> collapsed to one character,  *)
(* an end tag without a start tag dropped, an element closed where its     *)
(* parent closes.  Inside the article the tags are those of ArticleTags;   *)
(* every other token is text.                                              *)
(***************************************************************************)
ArticleOpen == "<article class=\"prose\">"
ArticleClose == "</article>"
Backslash == "\\"

OpenTagName(t) ==
    CASE t = "<p>" -> "p" [] t = "<pre>" -> "pre" [] t = "<code>" -> "code" [] OTHER -> ""

CloseTagName(t) ==
    CASE t = "</p>" -> "p" [] t = "</pre>" -> "pre" [] t = "</code>" -> "code" [] OTHER -> ""

CloseTagOf(name) ==
    CASE name = "p" -> "</p>" [] name = "pre" -> "</pre>" [] OTHER -> "</code>"

ArticleTags == {"<p>", "</p>", "<pre>", "</pre>", "<code>", "</code>"}

\* skip_tags, as far as ArticleTags has them.
skip_tags == {"pre", "code"}

\* The builder's preserve_whitespace_tags.
preserve_whitespace_tags == {"pre"}

\* html.parser decodes a character reference; the serializer writes the character.
DecodeToken(t) == IF t = "&quot;" THEN Q ELSE t

Decode(text) == Tokens([i \in 1..Len(text) |-> DecodeToken(text[i])])

IsBlank(text) == \A i \in 1..Len(text) : text[i] \in Whitespace

\* endData: a run of ASCII whitespace becomes "\n" when it holds one, else " ".
Collapse(text) == IF Contains(text, NL) THEN <<NL>> ELSE <<SP>>

\* parent.name in skip_tags, or parent.find_parent(list(skip_tags)) is not None.
InSkipTag(stack) == \E i \in 1..Len(stack) : stack[i] \in skip_tags

\* The end tags the serializer writes for the elements stack[p..], innermost first.
RECURSIVE Closers(_, _)
Closers(stack, p) ==
    IF p > Len(stack) THEN <<>>
    ELSE Closers(stack, p + 1) \o <<CloseTagOf(stack[p])>>

\* The most recent open element called name: its position in the stack, 0 when none.
RECURSIVE LastOpen(_, _, _)
LastOpen(stack, p, name) ==
    IF p = 0 THEN 0 ELSE IF stack[p] = name THEN p ELSE LastOpen(stack, p - 1, name)

TagPiece(tokens) == [kind |-> "tag", text |-> tokens, stack |-> <<>>]

\* The tree of the tokens inner[i..] as the sequence of its pieces in document order:
\* tags as the serializer writes them, and text nodes with the stack of their
\* ancestors.  kind: "tag", "blank" (not node.strip()), "skip" (a skip tag above
\* the node) or "text" (a node to translate).
RECURSIVE Nodes(_, _, _)
Nodes(inner, i, stack) ==
    IF i > Len(inner)
    THEN IF stack = <<>> THEN <<>> ELSE <<TagPiece(Closers(stack, 1))>>
    ELSE IF OpenTagName(inner[i]) # ""
    THEN <<TagPiece(<<inner[i]>>)>>
         \o Nodes(inner, i + 1, Append(stack, OpenTagName(inner[i])))
    ELSE IF CloseTagName(inner[i]) # ""
    THEN LET p == LastOpen(stack, Len(stack), CloseTagName(inner[i])) IN
         IF p = 0 THEN Nodes(inner, i + 1, stack)
         ELSE <<TagPiece(Closers(stack, p))>> \o Nodes(inner, i + 1, SubSeq(stack, 1, p - 1))
    ELSE LET f == First(inner, i, ArticleTags)
             e == IF f = 0 THEN Len(inner) + 1 ELSE f
             text == Decode(SubSeq(inner, i, e - 1))
             keep == \E q \in 1..Len(stack) : stack[q] \in preserve_whitespace_tags
         IN <<[kind |-> IF IsBlank(text) THEN "blank"
                        ELSE IF InSkipTag(stack) THEN "skip" ELSE "text",
               text |-> IF IsBlank(text) /\ ~keep THEN Collapse(text) ELSE text,
               stack |-> stack]>>
            \o Nodes(inner, e, stack)

IsTextNode(piece) == piece.kind = "text"

\* text_nodes / texts: the nodes to translate, in document order.
TextsOf(pieces) ==
    LET nodes == SelectSeq(pieces, IsTextNode) IN
    Tokens([i \in 1..Len(nodes) |-> nodes[i].text])

\* "".join(str(child) for child in soup.contents) after the nodes to translate were
\* replaced, the n-th of pieces[i..] by translated[n + 1].
RECURSIVE Serialize(_, _, _, _)
Serialize(pieces, i, translated, n) ==
    IF i > Len(pieces) THEN <<>>
    ELSE IF pieces[i].kind = "text"
    THEN translated[n + 1] \o Serialize(pieces, i + 1, translated, n + 1)
    ELSE pieces[i].text \o Serialize(pieces, i + 1, translated, n)

\* The character U+0000.
\* chr(c) for c in 0..255: the character itself when it is printable ASCII (but the
\* grave accent) or a newline, its code point otherwise.
Latin1 ==
    <<
      "U+0000", "U+0001", "U+0002", "U+0003", "U+0004", "U+0005", "U+0006", "U+0007",
      "U+0008", "U+0009", "\n", "U+000B", "U+000C", "U+000D", "U+000E", "U+000F",
      "U+0010", "U+0011", "U+0012", "U+0013", "U+0014", "U+0015", "U+0016", "U+0017",
      "U+0018", "U+0019", "U+001A", "U+001B", "U+001C", "U+001D", "U+001E", "U+001F",
      " ", "!", "\"", "#", "$", "%", "&", "'",
      "(", ")", "*", "+", ",", "-", ".", "/",
      "0", "1", "2", "3", "4", "5", "6", "7",
      "8", "9", ":", ";", "<", "=", ">", "?",
      "@", "A", "B", "C", "D", "E", "F", "G",
      "H", "I", "J", "K", "L", "M", "N", "O",
      "P", "Q", "R", "S", "T", "U", "V", "W",
      "X", "Y", "Z", "[", "\\", "]", "^", "_",
      "U+0060", "a", "b", "c", "d", "e", "f", "g",
      "h", "i", "j", "k", "l", "m", "n", "o",
      "p", "q", "r", "s", "t", "u", "v", "w",
      "x", "y", "z", "{", "|", "}", "~", "U+007F",
      "U+0080", "U+0081", "U+0082", "U+0083", "U+0084", "U+0085", "U+0086", "U+0087",
      "U+0088", "U+0089", "U+008A", "U+008B", "U+008C", "U+008D", "U+008E", "U+008F",
      "U+0090", "U+0091", "U+0092", "U+0093", "U+0094", "U+0095", "U+0096", "U+0097",
      "U+0098", "U+0099", "U+009A", "U+009B", "U+009C", "U+009D", "U+009E", "U+009F",
      "U+00A0", "U+00A1", "U+00A2", "U+00A3", "U+00A4", "U+00A5", "U+00A6", "U+00A7",
      "U+00A8", "U+00A9", "U+00AA", "U+00AB", "U+00AC", "U+00AD", "U+00AE", "U+00AF",
      "U+00B0", "U+00B1", "U+00B2", "U+00B3", "U+00B4", "U+00B5", "U+00B6", "U+00B7",
      "U+00B8", "U+00B9", "U+00BA", "U+00BB", "U+00BC", "U+00BD", "U+00BE", "U+00BF",
      "U+00C0", "U+00C1", "U+00C2", "U+00C3", "U+00C4", "U+00C5", "U+00C6", "U+00C7",
      "U+00C8", "U+00C9", "U+00CA", "U+00CB", "U+00CC", "U+00CD", "U+00CE", "U+00CF",
      "U+00D0", "U+00D1", "U+00D2", "U+00D3", "U+00D4", "U+00D5", "U+00D6", "U+00D7",
      "U+00D8", "U+00D9", "U+00DA", "U+00DB", "U+00DC", "U+00DD", "U+00DE", "U+00DF",
      "U+00E0", "U+00E1", "U+00E2", "U+00E3", "U+00E4", "U+00E5", "U+00E6", "U+00E7",
      "U+00E8", "U+00E9", "U+00EA", "U+00EB", "U+00EC", "U+00ED", "U+00EE", "U+00EF",
      "U+00F0", "U+00F1", "U+00F2", "U+00F3", "U+00F4", "U+00F5", "U+00F6", "U+00F7",
      "U+00F8", "U+00F9", "U+00FA", "U+00FB", "U+00FC", "U+00FD", "U+00FE", "U+00FF" >>

chr(c) == Latin1[c + 1]

\* ESCAPES of re's parser, by the letter after the backslash.
ESCAPES == [a |-> 7, b |-> 8, f |-> 12, n |-> 10, r |-> 13, t |-> 9, v |-> 11]

\* The tokens that start with a letter of ESCAPES: the letter, and the rest of the
\* token ("" when the token is the letter).
EscapeTokens ==
    ("a" :> <<"a", "">>) @@ ("b" :> <<"b", "">>) @@ ("n" :> <<"n", "">>)
    @@ ("read" :> <<"r", "ead">>)
    @@ ("feedbackModal" :> <<"f", "eedbackModal">>)
    @@ ("feedbackForm" :> <<"f", "eedbackForm">>)
    @@ ("a.html" :> <<"a", ".html">>) @@ ("b.html" :> <<"b", ".html">>)
    @@ ("f.html" :> <<"f", ".html">>) @@ ("n.html" :> <<"n", ".html">>)
    @@ ("aria-label=\"Previous lesson\"" :> <<"a", "ria-label=\"Previous lesson\"">>)
    @@ ("aria-label=\"Vorige les\"" :> <<"a", "ria-label=\"Vorige les\"">>)
    @@ ("aria-label=\"Next lesson\"" :> <<"a", "ria-label=\"Next lesson\"">>)
    @@ ("aria-label=\"Volgende les\"" :> <<"a", "ria-label=\"Volgende les\"">>)
    @@ ("aria-label=\"Scroll to top\"" :> <<"a", "ria-label=\"Scroll to top\"">>)
    @@ ("aria-label=\"Naar boven\"" :> <<"a", "ria-label=\"Naar boven\"">>)
    @@ ("aria-label=\"Copy to Clipboard\"" :> <<"a", "ria-label=\"Copy to Clipboard\"">>)
    @@ ("aria-label=\"Kopieer naar klembord\""
            :> <<"a", "ria-label=\"Kopieer naar klembord\"">>)
    @@ ("title=\"Copy to Clipboard\"" :> <<"t", "itle=\"Copy to Clipboard\"">>)
    @@ ("title=\"Kopieer naar klembord\"" :> <<"t", "itle=\"Kopieer naar klembord\"">>)

\* The character of the escape a token starts, and what is left of the token.
EscapeOf(t) ==
    <<chr(ESCAPES[EscapeTokens[t][1]])>>
        \o (IF EscapeTokens[t][2] = "" THEN <<>> ELSE <<EscapeTokens[t][2]>>)

StartsWithLetter(t) == StartsWithWordChar(t) /\ t \notin Digits

\* The digits of a token of Digits.
DigitsOf(t) ==
    CASE t = "0" -> <<0>> [] t = "1" -> <<1>> [] t = "2" -> <<2>> [] t = "56" -> <<5, 6>>

\* The digits of the run of digit tokens from position j.
RECURSIVE DigitRun(_, _)
DigitRun(template, j) ==
    IF At(template, j) \in Digits
    THEN DigitsOf(template[j]) \o DigitRun(template, j + 1) ELSE <<>>

\* Digits the escape did not take, as text.
RECURSIVE DigitText(_)
DigitText(d) ==
    IF d = <<>> THEN <<>>
    ELSE IF Len(d) >= 2 /\ d[1] = 5 /\ d[2] = 6 THEN <<"56">> \o DigitText(Tail(Tail(d)))
    ELSE <<chr(48 + d[1])>> \o DigitText(Tail(d))

\* d[p] is there and in OCTDIGITS.
IsOct(d, p) == p <= Len(d) /\ d[p] \in 0..7

\* int(digits, 8) of d[1..n].
RECURSIVE Octal(_, _)
Octal(d, n) == IF n = 0 THEN 0 ELSE 8 * Octal(d, n - 1) + d[n]

\* The escape that starts with the digits d: the number of digits it takes (1 to 3),
\* and either a character, a group, or an error.  "\0" takes up to two more octal
\* digits; another digit takes a second digit when one follows, and a third when all
\* three are octal, which makes it an octal escape (at most 0o377); otherwise it is a
\* group reference, an error when the expression has no such group.
NumericEscape(d, groups) ==
    IF d[1] = 0
    THEN LET n == IF IsOct(d, 2) THEN (IF IsOct(d, 3) THEN 3 ELSE 2) ELSE 1
         IN [take |-> n, error |-> FALSE, out |-> <<chr(Octal(d, n) % 256)>>]
    ELSE IF Len(d) >= 2 /\ IsOct(d, 1) /\ IsOct(d, 2) /\ IsOct(d, 3)
    THEN [take |-> 3, error |-> Octal(d, 3) > 255,
          out |-> IF Octal(d, 3) > 255 THEN <<>> ELSE <<chr(Octal(d, 3))>>]
    ELSE IF Len(d) >= 2
    THEN [take |-> 2, error |-> 10 * d[1] + d[2] > Len(groups),
          out |-> IF 10 * d[1] + d[2] > Len(groups) THEN <<>>
                  ELSE groups[10 * d[1] + d[2]]]
    ELSE [take |-> 1, error |-> d[1] > Len(groups),
          out |-> IF d[1] > Len(groups) THEN <<>> ELSE groups[d[1]]]

\* One piece of the expansion before the expansion r of the rest.
Expanded(piece, r) == [error |-> r.error, out |-> piece \o r.out]

\* A numeric escape e of the digits d, the digits it left, and the expansion r of what
\* follows the digits.
ExpandedNumeric(e, d, r) ==
    IF e.error THEN [error |-> TRUE, out |-> <<>>]
    ELSE Expanded(e.out \o DigitText(SubSeq(d, e.take + 1, Len(d))), r)

\* re's expansion of a replacement template (parse_template and expand_template): an
\* escape of ESCAPES is its character, "\\" a backslash, a backslash before digits a
\* numeric escape, a backslash before any other ASCII letter or at the end an error
\* (error = TRUE), and before anything else itself.
RECURSIVE ExpandTemplate(_, _, _)
ExpandTemplate(template, i, groups) ==
    IF i > Len(template) THEN [error |-> FALSE, out |-> <<>>]
    ELSE IF template[i] # Backslash
    THEN Expanded(<<template[i]>>, ExpandTemplate(template, i + 1, groups))
    ELSE IF At(template, i + 1) = "" THEN [error |-> TRUE, out |-> <<>>]
    ELSE IF At(template, i + 1) = Backslash
    THEN Expanded(<<Backslash>>, ExpandTemplate(template, i + 2, groups))
    ELSE IF At(template, i + 1) \in Digits
    THEN ExpandedNumeric(NumericEscape(DigitRun(template, i + 1), groups),
                         DigitRun(template, i + 1),
                         ExpandTemplate(template, RunEnd(template, i + 1, Digits), groups))
    ELSE IF At(template, i + 1) \in DOMAIN EscapeTokens
    THEN Expanded(EscapeOf(template[i + 1]), ExpandTemplate(template, i + 2, groups))
    ELSE IF StartsWithLetter(template[i + 1]) THEN [error |-> TRUE, out |-> <<>>]
    ELSE Expanded(<<Backslash, template[i + 1]>>, ExpandTemplate(template, i + 2, groups))

\* ARTICLE_BLOCK_RE.search: the position of the first <article class="... prose ...">
\* that an </article> follows, 0 when there is none.
ArticleAt(html) ==
    LET a == First(html, 1, {ArticleOpen}) IN
    IF a = 0 \/ First(html, a + 1, {ArticleClose}) = 0 THEN 0 ELSE a

\* replies[b] is the backend's answer to the b-th request; bs4 tells whether
\* `from bs4 import BeautifulSoup, NavigableString` succeeds.
translate_lesson_body_to_dutch(html, replies, bs4) ==
    LET a == ArticleAt(html)
        unchanged == [error |-> "", out |-> html, n |-> 0, texts |-> <<>>, sent |-> 0]
    IN IF ~bs4
       THEN [error |-> "RuntimeError: Missing dependency for content translation",
             out |-> html, n |-> 0, texts |-> <<>>, sent |-> 0]
       ELSE IF a = 0 THEN unchanged
       ELSE LET c == First(html, a + 1, {ArticleClose})
                article_inner == SubSeq(html, a + 1, c - 1)
                pieces == Nodes(article_inner, 1, <<>>)
                texts == TextsOf(pieces)
            IN IF texts = <<>> THEN unchanged
               ELSE LET t == translate_texts(texts, replies) IN
                    IF t.error # ""
                    THEN [error |-> t.error, out |-> html, n |-> 0,
                          texts |-> texts, sent |-> t.sent]
                    ELSE LET new_inner == Serialize(pieces, 1, t.results, 0)
                             new_article == <<ArticleOpen>> \o new_inner \o <<ArticleClose>>
                             x == ExpandTemplate(new_article, 1,
                                                 <<(<<ArticleOpen>>), article_inner,
                                                   (<<ArticleClose>>)>>)
                         IN IF x.error
                            THEN [error |-> "re.error: bad escape", out |-> html, n |-> 0,
                                  texts |-> texts, sent |-> t.sent]
                            ELSE [error |-> "",
                                  out |-> SubSeq(html, 1, a - 1) \o x.out
                                          \o SubSeq(html, c + 1, Len(html)),
                                  n |-> Len(texts), texts |-> texts, sent |-> t.sent]

(***************************************************************************)
(* process_file                                                            *)
(***************************************************************************)
FileChangeStats ==
    [breadcrumb_removed |-> 0, feedback_markup_removed |-> 0,
     feedback_scripts_removed |-> 0, lesson_links_rewritten |-> 0,
     comments_section_removed |-> 0, livewire_completed_button_removed |-> 0,
     spotlight_removed |-> 0, livewire_assets_removed |-> 0,
     easymde_assets_removed |-> 0, comments_editor_scripts_removed |-> 0,
     ui_strings_translated |-> 0, lesson_body_strings_translated |-> 0,
     local_nav_inserted |-> 0]

\* The directory of the corpus, and output_dir is None.
CorpusDir == "laraveldaily"
None == ""

\* `updated, n = ...; stats.<field> += n` (the counters start at 0).
Tally(st, field, r) ==
    [st EXCEPT !.stats = [@ EXCEPT ![field] = @ + r.n], !.updated = r.out]

\* The lesson-body translation with its exception swallowed: the text stays as it was.
Translated_skipping(st, t) ==
    IF t.error # "" THEN [st EXCEPT !.sent = t.sent]
    ELSE [st EXCEPT !.stats = [@ EXCEPT !.lesson_body_strings_translated = t.n],
                    !.updated = t.out, !.sent = t.sent]

\* What the lesson-body translation leaves: the exception, or the text and the count;
\* sent is the number of requests it made.
Translated(st, t) ==
    IF t.error # "" THEN [st EXCEPT !.error = t.error, !.sent = t.sent]
    ELSE [st EXCEPT !.stats = [@ EXCEPT !.lesson_body_strings_translated = t.n],
                    !.updated = t.out, !.sent = t.sent]

\* The statements of process_file in order; a holds its arguments and
\* current_lesson_url.  After an exception nothing more runs.
Stage(stage, st, a) ==
    CASE st.error # "" -> st
      [] st.error = "" /\ stage = 1 ->
            IF a.current.found THEN st
            ELSE [st EXCEPT !.error = "ValueError: Could not find saved-from lesson URL"]
      [] st.error = "" /\ stage = 2 ->
            Tally(st, "breadcrumb_removed",
                  subn("BREADCRUMB_BLOCK_RE", NoEnv, st.updated, 1))
      [] st.error = "" /\ stage = 3 ->
            Tally(st, "local_nav_inserted", ensure_local_site_nav(st.updated))
      [] st.error = "" /\ stage = 4 ->
            Tally(st, "feedback_markup_removed",
                  subn("FEEDBACK_MARKUP_RE", NoEnv, st.updated, 1))
      [] st.error = "" /\ stage = 5 ->
            Tally(st, "feedback_scripts_removed", remove_feedback_scripts(st.updated))
      [] st.error = "" /\ stage = 6 ->
            Tally(st, "livewire_completed_button_removed",
                  subn("LIVEWIRE_COMPLETED_BUTTON_RE", NoEnv, st.updated, 0))
      [] st.error = "" /\ stage = 7 ->
            Tally(st, "spotlight_removed",
                  subn("SPOTLIGHT_OVERLAY_RE", NoEnv, st.updated, 0))
      [] st.error = "" /\ stage = 8 ->
            Tally(st, "livewire_assets_removed",
                  subn("LIVEWIRE_SCRIPT_SRC_RE", NoEnv, st.updated, 0))
      [] st.error = "" /\ stage = 9 ->
            Tally(st, "livewire_assets_removed",
                  subn("LIVEWIRE_INIT_SCRIPT_RE", NoEnv, st.updated, 0))
      [] st.error = "" /\ stage = 10 ->
            Tally(st, "easymde_assets_removed",
                  subn("EASYMDE_JS_RE", NoEnv, st.updated, 0))
      [] st.error = "" /\ stage = 11 ->
            Tally(st, "easymde_assets_removed",
                  subn("EASYMDE_CSS_RE", NoEnv, st.updated, 0))
      [] st.error = "" /\ stage = 12 ->
            Tally(st, "comments_editor_scripts_removed",
                  remove_script_blocks_containing(st.updated, CommentEditorNeedles))
      [] st.error = "" /\ stage = 13 ->
            Tally(st, "ui_strings_translated", translate_ui_to_dutch(st.updated))
      [] st.error = "" /\ stage = 14 ->
            IF ~a.translate_lesson_body THEN st
            ELSE IF a.deepl_auth_key = None
            THEN [st EXCEPT !.error =
                     "RuntimeError: Lesson-body translation requested but no DeepL auth key provided"]
            ELSE Translated(st, translate_lesson_body_to_dutch(st.updated, a.replies, a.bs4))
      [] st.error = "" /\ stage = 15 ->
            Tally(st, "lesson_links_rewritten",
                  rewrite_lesson_links(st.updated, a.current.url, a.url_to_filename))
      [] st.error = "" /\ stage = 16 ->
            Tally(st, "comments_section_removed",
                  subn("COMMENTS_SECTION_RE", NoEnv, st.updated, 1))

RECURSIVE Stages(_, _, _)
Stages(stage, st, a) ==
    IF stage > 16 THEN st ELSE Stages(stage + 1, Stage(stage, st, a), a)

\* output_path of process_file, as the directory it lies in.
OutputDir(output_dir, in_place) ==
    IF ~in_place /\ output_dir # None THEN output_dir ELSE CorpusDir

\* `output_path != path or updated != original`
MustWrite(output_dir, in_place, updated, original_text) ==
    OutputDir(output_dir, in_place) # CorpusDir \/ updated # original_text

\* process_file up to its write: the text to write and the stats, or the exception.
\* replies is what the backend answers to the requests of this file, bs4 whether
\* beautifulsoup4 is installed.
process_file(html, map, translate_lesson_body, deepl_auth_key, replies, bs4) ==
    Stages(1, [error |-> "", stats |-> FileChangeStats, updated |-> html, sent |-> 0],
           [current |-> extract_lesson_url_from_file(html), url_to_filename |-> map,
            translate_lesson_body |-> translate_lesson_body,
            deepl_auth_key |-> deepl_auth_key, replies |-> replies, bs4 |-> bs4])

(***************************************************************************)
(* main.  argv is the parsed command line: strict, translate_lesson_body,  *)
(* output_dir (None when absent), in_place and deepl_auth_key (the option  *)
(* or DEEPL_AUTH_KEY, None when neither is set); with it, bs4: whether     *)
(* beautifulsoup4 is installed.                                            *)
(***************************************************************************)
\* `in_place = bool(args.in_place) or output_dir is None`
InPlace(args) == args.in_place \/ args.output_dir = None

\* main up to its loop: the exception that ends it, or the URL map.
Setup(args, fs) ==
    IF fs = <<>>
    THEN [failure |-> "SystemExit: No files matched laraveldaily/*.html", map |-> <<>>]
    ELSE LET m == build_lesson_url_map(fs) IN
         IF ~m.ok THEN [failure |-> m.error, map |-> <<>>]
         ELSE IF args.translate_lesson_body /\ args.output_dir = None /\ ~args.in_place
         THEN [failure |-> "SystemExit: Refusing to overwrite originals for full lesson translation",
               map |-> <<>>]
         ELSE [failure |-> "", map |-> m.map]

\* totals.x += stats.x, for every counter x.
AddStats(t, stats) == [f \in DOMAIN t |-> t[f] + stats[f]]

Anomalous_default(strict, n) == n > 1

\* `stats.x > 1 or (args.strict and stats.x != 1)`
Anomalous(strict, n) == n > 1 \/ (strict /\ n # 1)

\* missing.append((str(file_path), n)) when n is anomalous.
Flag(missing, strict, name, n) ==
    IF Anomalous(strict, n) THEN Append(missing, [file |-> name, count |-> n]) ELSE missing

\* The number of entries one warning prints: missing[:10].
WarnLimit == 10

Min(a, b) == IF a < b THEN a ELSE b

\* One printed line: its text, and for a line "  {p}: {c}" the rule whose warning
\* it stands under, the file p and the count c.
Line(text, rule, file, count) == [text |-> text, rule |-> rule, file |-> file, count |-> count]

\* `if missing: print("WARNING: ..."); for p, c in missing[:10]: print(...)`
Header(rule) ==
    CASE rule = "breadcrumb" ->
            "WARNING: breadcrumb block replacements unexpected (use --strict to flag 0 matches) for:"
      [] rule = "feedback" ->
            "WARNING: feedback markup replacements unexpected (use --strict to flag 0 matches) for:"
      [] rule = "comments" ->
            "WARNING: comments section replacements unexpected (use --strict to flag 0 matches) for:"

Warning(rule, missing) ==
    IF missing = <<>> THEN <<>>
    ELSE <<Line(Header(rule), rule, "", 0)>>
         \o Tokens([i \in 1..Min(Len(missing), WarnLimit) |->
                       Line("  {p}: {c}", rule, missing[i].file, missing[i].count)])

\* What the backend may answer to the requests of one file; no request follows one
\* that failed.
MaxRequests == 2
Replies(args) ==
    IF args.translate_lesson_body /\ args.deepl_auth_key # None /\ args.bs4
    THEN {r \in [1..MaxRequests -> ReplyKinds \ {"nondict"}] :
             \A b \in 1..MaxRequests :
                 ReplyError(r[b]) # "" => \A b2 \in (b + 1)..MaxRequests : r[b2] = "ok"}
    ELSE {<<>>}

\* The requests process_file made for file i: the first `sent` of the answers.
Requested(i, replies, sent) ==
    Tokens([b \in 1..sent |-> [file |-> i, reply |-> replies[b]]])

\* main, from the glob to the first iteration of its loop.
Start ==
    /\ pc = "start"
    /\ LET s == Setup(argv, files) IN
       /\ failure' = s.failure
       /\ url_to_filename' = s.map
       /\ pc' = IF s.failure = "" THEN "loop" ELSE "failed"
    /\ UNCHANGED <<call, ret, argv, files, outfiles, original, k, totals, stats_log,
                   missing_breadcrumb, missing_feedback, missing_comments, written,
                   console, requests>>

\* One iteration of the loop of main: process_file on file k + 1, its write, and the
\* bookkeeping of main; an exception of process_file ends the run.
ProcessStep ==
    /\ pc = "loop"
    /\ k < Len(files)
    /\ \E replies \in Replies(argv) :
       \E r \in {process_file(files[k + 1], url_to_filename, argv.translate_lesson_body,
                              argv.deepl_auth_key, replies, argv.bs4)} :
         LET i == k + 1
             dir == OutputDir(argv.output_dir, InPlace(argv))
             write == MustWrite(argv.output_dir, InPlace(argv), r.updated, files[i])
         IN /\ requests' = requests \o Requested(i, replies, r.sent)
            /\ IF r.error # ""
               THEN /\ failure' = r.error
                    /\ pc' = "failed"
                    /\ UNCHANGED <<files, outfiles, k, totals, stats_log, missing_breadcrumb,
                                   missing_feedback, missing_comments, written>>
               ELSE /\ files' = IF write /\ dir = CorpusDir
                                THEN [files EXCEPT ![i] = r.updated] ELSE files
                    /\ outfiles' = IF write /\ dir # CorpusDir
                                   THEN [j \in (DOMAIN outfiles) \cup {i} |->
                                            IF j = i THEN r.updated ELSE outfiles[j]]
                                   ELSE outfiles
                    /\ written' = IF write
                                  THEN Append(written, [dir |-> dir, name |-> FileName(i)])
                                  ELSE written
                    /\ totals' = AddStats(totals, r.stats)
                    /\ stats_log' = Append(stats_log, r.stats)
                    /\ missing_breadcrumb' =
                           Flag(missing_breadcrumb, argv.strict, FileName(i),
                                r.stats.breadcrumb_removed)
                    /\ missing_feedback' =
                           Flag(missing_feedback, argv.strict, FileName(i),
                                r.stats.feedback_markup_removed)
                    /\ missing_comments' =
                           Flag(missing_comments, argv.strict, FileName(i),
                                r.stats.comments_section_removed)
                    /\ k' = i
                    /\ UNCHANGED <<pc, failure>>
    /\ UNCHANGED <<call, ret, argv, original, url_to_filename, console>>

\* The summary main prints after its loop, and `return 0`.
Summary ==
    /\ pc = "loop"
    /\ k = Len(files)
    /\ console' = <<Line("Processed {len(files)} files", "", "", Len(files)),
                    [text |-> "Removed: {totals}", totals |-> totals]>>
                  \o Warning("breadcrumb", missing_breadcrumb)
                  \o Warning("feedback", missing_feedback)
                  \o Warning("comments", missing_comments)
    /\ pc' = "done"
    /\ UNCHANGED <<call, ret, argv, files, outfiles, original, k, url_to_filename,
                   totals, stats_log, missing_breadcrumb, missing_feedback,
                   missing_comments, written, failure, requests>>

\* The state main starts in, on the corpus fs with the command line args.
MainInit(args, fs) ==
    /\ call = <<>>
    /\ ret = <<>>
    /\ argv = args
    /\ files = fs
    /\ outfiles = <<>>
    /\ original = fs
    /\ pc = "start"
    /\ k = 0
    /\ url_to_filename = <<>>
    /\ totals = FileChangeStats
    /\ stats_log = <<>>
    /\ missing_breadcrumb = <<>>
    /\ missing_feedback = <<>>
    /\ missing_comments = <<>>
    /\ written = <<>>
    /\ console = <<>>
    /\ failure = ""
    /\ requests = <<>>

\* main is not running: a function is checked on its own.
MainIdle ==
    /\ argv = <<>>
    /\ files = <<>>
    /\ outfiles = <<>>
    /\ original = <<>>
    /\ pc = "idle"
    /\ k = 0
    /\ url_to_filename = <<>>
    /\ totals = FileChangeStats
    /\ stats_log = <<>>
    /\ missing_breadcrumb = <<>>
    /\ missing_feedback = <<>>
    /\ missing_comments = <<>>
    /\ written = <<>>
    /\ console = <<>>
    /\ failure = ""
    /\ requests = <<>>

(***************************************************************************)
(* The functions checked on their own: call is the pending call, ret the   *)
(* results so far.                                                         *)
(***************************************************************************)
Range(f) == {f[i] : i \in DOMAIN f}

\* The sequences over S of length lo..hi.
SeqsOf(S, lo, hi) == UNION {[1..n -> S] : n \in lo..hi}

RECURSIVE Concat(_)
Concat(ss) == IF ss = <<>> THEN <<>> ELSE Head(ss) \o Concat(Tail(ss))

\* ---- normalize_lesson_url ----
MaxUrlLen == 2
MaxFragLen == 2

\* The lesson URLs u without a trailing slash and without a fragment.
PlainUrls ==
    {<<LessonPrefix>> \o p : p \in {q \in SeqsOf({"a", "b", "/"}, 1, MaxUrlLen) :
                                       q[Len(q)] # "/"}}

\* The fragment texts x.
Fragments == SeqsOf({"x", "/", "#"}, 0, MaxFragLen)

Surroundings == {<<SP>>, <<NL, SP>>}

\* The spellings of one URL: u, u/, u#x, each also surrounded by whitespace, and u/#x.
Forms(c) ==
    <<c.u,
      c.u \o <<"/">>,
      c.u \o <<"#">> \o c.x,
      c.ws \o c.u \o c.ws,
      c.ws \o c.u \o <<"/">> \o c.ws,
      c.ws \o c.u \o <<"#">> \o c.x \o c.ws,
      c.u \o <<"/", "#">> \o c.x>>

InitNorm ==
    /\ \E u \in PlainUrls, x \in Fragments, ws \in Surroundings :
         call = [fn |-> "normalize_lesson_url", u |-> u, x |-> x, ws |-> ws]
    /\ ret = <<>>
    /\ MainIdle

\* normalize_lesson_url on the next spelling, and again on its result.
Normalize ==
    /\ pc = "idle"
    /\ call.fn = "normalize_lesson_url"
    /\ Len(ret) < Len(Forms(call))
    /\ LET url == Forms(call)[Len(ret) + 1]
           key == normalize_lesson_url(url)
       IN ret' = Append(ret, [url |-> url, key |-> key,
                              again |-> normalize_lesson_url(key)])
    /\ UNCHANGED <<call, mainVars>>

NextNorm == Normalize

SpecNorm == InitNorm /\ [][NextNorm]_vars

\* ---- rewrite_lesson_links ----
MaxLinks == 2

LinkBases == {<<LessonPrefix>> \o p : p \in {<<"a">>, <<"a", "/">>, <<"b">>, <<"c">>}}

LinkSuffixes == {<<>>, <<"#", "x">>, <<"?", "x">>, <<SP, "x">>, <<"#">>}

Links == [base : LinkBases, suffix : LinkSuffixes]

LinkMaps ==
    {(<<LessonPrefix, "a">> :> "a.html") @@ (<<LessonPrefix, "b">> :> "b.html"),
     (<<LessonPrefix, "b">> :> "b.html")}

\* href="<base><suffix>"
Href(target) == <<HrefQ>> \o target \o <<Q>>

\* A page whose links are `links`, each after some text.
LinksHtml(links) ==
    Concat([i \in 1..Len(links) |->
               <<"x", SP>> \o Href(links[i].base \o links[i].suffix)])
    \o <<NL>>

InitLinks ==
    /\ \E links \in SeqsOf(Links, 1, MaxLinks), m \in LinkMaps,
          current \in {<<LessonPrefix, "a">>, <<LessonPrefix, "c">>} :
         call = [fn |-> "rewrite_lesson_links", links |-> links,
                 current_lesson_url |-> current, url_to_filename |-> m]
    /\ ret = <<>>
    /\ MainIdle

RewriteLinks ==
    /\ pc = "idle"
    /\ call.fn = "rewrite_lesson_links"
    /\ ret = <<>>
    /\ ret' = <<rewrite_lesson_links(LinksHtml(call.links), call.current_lesson_url,
                                     call.url_to_filename)>>
    /\ UNCHANGED <<call, mainVars>>

NextLinks == RewriteLinks

SpecLinks == InitLinks /\ [][NextLinks]_vars

\* ---- translate_ui_to_dutch ----
MaxDigits == 2
MaxPasses == 2

\* The numbers H and M: runs of digits.
Numbers == SeqsOf({"0", "1", "56"}, 1, MaxDigits)

Before == {<<>>, <<"x", SP>>, <<ReadingSpan>>}
After == {<<>>, <<NL>>, <<SpanClose>>}

\* "H h M min <word>" between the texts pre and post.
ReadingTime(c, hour, word) ==
    c.pre \o c.H \o <<SP, hour, SP>> \o c.M \o <<SP, "min", SP, word>> \o c.post

InitUi ==
    /\ \E H \in Numbers, M \in Numbers, word \in {"read", "leestijd"},
          pre \in Before, post \in After :
         call = [fn |-> "translate_ui_to_dutch", H |-> H, M |-> M, word |-> word,
                 pre |-> pre, post |-> post]
    /\ ret = <<>>
    /\ MainIdle

\* One pass of translate_ui_to_dutch, on the text the last pass left.
UiPass ==
    /\ pc = "idle"
    /\ call.fn = "translate_ui_to_dutch"
    /\ Len(ret) < MaxPasses
    /\ ret' = Append(ret, translate_ui_to_dutch(
                              IF ret = <<>> THEN ReadingTime(call, "h", call.word)
                              ELSE ret[Len(ret)].out))
    /\ UNCHANGED <<call, mainVars>>

NextUi == UiPass

SpecUi == InitUi /\ [][NextUi]_vars

\* ---- translate_lesson_body_to_dutch ----
MaxPieces == 2

\* What the article is made of: paragraphs, code samples, white space.
ArticlePieces ==
    {<<"<p>", "Hello", "</p>">>,
     <<"<p>", LongText, "</p>">>,
     <<"<p>", "World", SP, "<code>", "&quot;", "</code>", "</p>">>,
     <<"<pre>", "<code>", "a", Backslash, "n", "b", "</code>", "</pre>">>,
     <<"<code>", "a", Backslash, Backslash, "b", "</code>">>,
     <<"<code>", Backslash, "x", "</code>">>,
     <<"<code>", Backslash, "a", "</code>">>,
     <<"<code>", Backslash, "0", "56", "</code>">>,
     <<"<code>", "x", "</code>">>,
     <<NL>>}

ArticleHtml(pieces) ==
    <<"x", NL, ArticleOpen>> \o Concat(pieces) \o <<ArticleClose, NL>>

InitBody ==
    /\ \E pieces \in SeqsOf(ArticlePieces, 1, MaxPieces),
          replies \in [1..MaxPieces -> ReplyKinds], bs4 \in BOOLEAN :
         call = [fn |-> "translate_lesson_body_to_dutch", html |-> ArticleHtml(pieces),
                 replies |-> replies, bs4 |-> bs4]
    /\ ret = <<>>
    /\ MainIdle

TranslateBody ==
    /\ pc = "idle"
    /\ call.fn = "translate_lesson_body_to_dutch"
    /\ ret = <<>>
    /\ ret' = <<translate_lesson_body_to_dutch(call.html, call.replies, call.bs4)>>
    /\ UNCHANGED <<call, mainVars>>

NextBody == TranslateBody

SpecBody == InitBody /\ [][NextBody]_vars

\* ---- process_file, on the text it left ----
MaxBlocks == 2

\* <!-- saved from url=(0046)https://laraveldaily.com/lesson/<path> -->
SavedFrom(path) == <<SavedFromOpen, LessonPrefix>> \o path \o <<SP, CommentClose, NL>>

\* What a saved lesson page is made of.
PageBlocks ==
    {<<NL, BcMark, NL, BcNav, "x", NavClose, NL>>,
     <<NL, FbMark, NL, FbButton, "x", DialogClose, NL>>,
     <<NL, NavRemovedMark, NL>>,
     <<NL, LOCAL_NAV_MARKER, NL, HeaderOpen, "x", HeaderClose, NL>>,
     <<ScriptOpen, "feedbackModal", ScriptClose>>,
     <<ScriptOpen, "x", ScriptClose>>,
     <<ScriptOpen, "loadEasyMDE", ScriptClose>>,
     <<NL, LivewireSrcOpen, ScriptClose, NL>>,
     <<ScriptOpen, SP, LivewireInit, "x", ScriptClose, NL>>,
     <<EasymdeSrcOpen, ScriptClose>>,
     <<EasymdeCss>>,
     <<NL, WireDiv, NL, ToggleClick, NL, DivClose, NL, WireEnd, NL>>,
     <<NL, WireDiv, NL, SpotlightDiv, "x", NL, DivClose, NL, DivClose, NL, WireEnd, NL>>,
     <<NL, CommentsMark, NL, "x", NL, MainClose, NL>>,
     <<HrefQ, LessonPrefix, "a", "#", "x", Q>>,
     <<HrefQ, LessonPrefix, "b", Q>>,
     <<"1", SP, "h", SP, "56", SP, "min", SP, "read">>,
     <<ReadingSpan, SP, "56", SP, "min", SP, "read", SP, SpanClose>>,
     <<"Hide Lessons List">>,
     <<"x", NL>>}

\* The map of a corpus of two lessons.
TwoLessons ==
    (<<LessonPrefix, "a">> :> "a.html") @@ (<<LessonPrefix, "b">> :> "b.html")

InitFile ==
    /\ \E blocks \in SeqsOf(PageBlocks, 0, MaxBlocks) :
         call = [fn |-> "process_file", html |-> SavedFrom(<<"a">>) \o Concat(blocks)]
    /\ ret = <<>>
    /\ MainIdle

\* process_file (body translation disabled); the next run reads what this one wrote.
ProcessFile ==
    /\ pc = "idle"
    /\ call.fn = "process_file"
    /\ Len(ret) < MaxPasses
    /\ ret' = Append(ret, process_file(IF ret = <<>> THEN call.html
                                       ELSE ret[Len(ret)].updated,
                                       TwoLessons, FALSE, None, <<>>, TRUE))
    /\ UNCHANGED <<call, mainVars>>

NextFile == ProcessFile

SpecFile == InitFile /\ [][NextFile]_vars

\* ---- ensure_local_site_nav ----
MaxNavPieces == 3

\* What a page holds around its navigation: a block of an earlier template, the block
\* of the current template, the legacy marker on a line of its own and after other
\* text of its line, the local marker without a header, and other text.
NavPieces ==
    {<<NL, LOCAL_NAV_MARKER, NL, HeaderOpen, "x", HeaderClose, NL>>,
     LOCAL_NAV_HTML,
     <<NL, NavRemovedMark, NL>>,
     <<NavRemovedMark, NL>>,
     <<NL, LOCAL_NAV_MARKER, NL>>,
     <<"x", NL>>,
     <<"x">>}

InitNav ==
    /\ \E pieces \in SeqsOf(NavPieces, 0, MaxNavPieces) :
         call = [fn |-> "ensure_local_site_nav", html |-> Concat(pieces)]
    /\ ret = <<>>
    /\ MainIdle

EnsureNav ==
    /\ pc = "idle"
    /\ call.fn = "ensure_local_site_nav"
    /\ ret = <<>>
    /\ ret' = <<ensure_local_site_nav(call.html)>>
    /\ UNCHANGED <<call, mainVars>>

NextNav == EnsureNav

SpecNav == InitNav /\ [][NextNav]_vars

\* ---- process_file, on its last stage ----
MaxCommentPieces == 3

\* What a page holds around its comments section: the marker on a line of its own,
\* indented, and after other text of its line; the closing tag of the main content
\* likewise; a link to another lesson, and other text.
CommentPieces ==
    {<<NL, CommentsMark, NL, "x">>,
     <<NL, SP, SP, CommentsMark, NL, "x">>,
     <<"x", CommentsMark>>,
     <<NL, MainClose, NL>>,
     <<NL, SP, MainClose, NL>>,
     <<"x", MainClose>>,
     <<HrefQ, LessonPrefix, "b", Q>>,
     <<NL>>,
     <<"x">>}

\* process_file after the statements before `stage`.
RECURSIVE StagesBefore(_, _, _)
StagesBefore(stage, st, a) ==
    IF stage = 1 THEN st ELSE Stage(stage - 1, StagesBefore(stage - 1, st, a), a)

InitComments ==
    /\ \E pieces \in SeqsOf(CommentPieces, 0, MaxCommentPieces) :
         call = [fn |-> "process_file.comments",
                 html |-> SavedFrom(<<"a">>) \o Concat(pieces)]
    /\ ret = <<>>
    /\ MainIdle

\* process_file (body translation disabled): what link rewriting left, and what the
\* function ends with.
ProcessComments ==
    /\ pc = "idle"
    /\ call.fn = "process_file.comments"
    /\ ret = <<>>
    /\ LET st == [error |-> "", stats |-> FileChangeStats, updated |-> call.html,
                  sent |-> 0]
           a == [current |-> extract_lesson_url_from_file(call.html),
                 url_to_filename |-> TwoLessons, translate_lesson_body |-> FALSE,
                 deepl_auth_key |-> None, replies |-> <<>>, bs4 |-> TRUE]
       IN ret' = <<[linked |-> StagesBefore(16, st, a),
                    final |-> process_file(call.html, TwoLessons, FALSE, None, <<>>,
                                           TRUE)]>>
    /\ UNCHANGED <<call, mainVars>>

NextComments == ProcessComments

SpecComments == InitComments /\ [][NextComments]_vars

(***************************************************************************)
(* The script as a whole.                                                  *)
(***************************************************************************)
MaxFiles == 2

\* The pages of the corpus: lesson a with everything the script works on, lesson b
\* with nothing to clean, a second page saved from lesson a, a page without the
\* marker, and lesson c with two paragraphs that need a request each.
Pages ==
    {SavedFrom(<<"a">>)
       \o <<NL, BcMark, NL, BcNav, "x", NavClose, NL>>
       \o <<HrefQ, LessonPrefix, "b", "#", "x", Q, NL>>
       \o <<ArticleOpen, "<p>", "Hello", "</p>", ArticleClose>>
       \o <<NL, CommentsMark, NL, "x", NL, MainClose, NL>>,
     SavedFrom(<<"b">>) \o <<"x", NL>>,
     SavedFrom(<<"a", "/">>) \o <<"x", NL>>,
     <<"x", NL>>,
     SavedFrom(<<"c">>)
       \o <<ArticleOpen, "<p>", LongText, "</p>", "<p>", LongText, "</p>",
            "<code>", "x", "</code>", ArticleClose, NL>>}

Corpora == SeqsOf(Pages, 0, MaxFiles)

CommandLines ==
    [strict : {FALSE}, translate_lesson_body : BOOLEAN,
     output_dir : {None, "laraveldaily-nl", CorpusDir}, in_place : BOOLEAN,
     deepl_auth_key : {None, "key"}, bs4 : BOOLEAN]

Init == \E args \in CommandLines, fs \in Corpora : MainInit(args, fs)

Next == Start \/ ProcessStep \/ Summary

Spec == Init /\ [][Next]_vars

\* ---- the warnings of the summary ----
MaxWarnFiles == 11

\* Distinct lesson paths for the files of the corpus.
PathLetters == <<"a", "b", "c", "x">>
PathOf(i) ==
    <<PathLetters[((i - 1) \div Len(PathLetters)) + 1],
      PathLetters[((i - 1) % Len(PathLetters)) + 1]>>

\* A lesson page with all three expected blocks, with none, or without the feedback
\* markup.
WarnPage(i, kind) ==
    SavedFrom(PathOf(i))
      \o (IF kind # "bare" THEN <<NL, BcMark, NL, BcNav, "x", NavClose, NL>> ELSE <<>>)
      \o (IF kind = "full" THEN <<NL, FbMark, NL, FbButton, "x", DialogClose, NL>>
          ELSE <<>>)
      \o <<"x", NL>>
      \o (IF kind # "bare" THEN <<NL, CommentsMark, NL, "x", NL, MainClose, NL>>
          ELSE <<>>)

\* The first j pages of one kind, the others of another.
WarnKinds ==
    {<<"bare", "full">>, <<"full", "bare">>, <<"nofeedback", "full">>,
     <<"bare", "nofeedback">>}

WarnCorpus(n, j, kinds) ==
    Tokens([i \in 1..n |-> WarnPage(i, IF i <= j THEN kinds[1] ELSE kinds[2])])

InitWarn ==
    \E n \in 1..MaxWarnFiles, strict \in BOOLEAN, kinds \in WarnKinds :
      \E j \in 0..n :
        MainInit([strict |-> strict, translate_lesson_body |-> FALSE,
                  output_dir |-> None, in_place |-> FALSE, deepl_auth_key |-> None,
                  bs4 |-> TRUE],
                 WarnCorpus(n, j, kinds))

NextWarn == Start \/ ProcessStep \/ Summary

SpecWarn == InitWarn /\ [][NextWarn]_vars

\* ---- the counts of the three rules main watches ----
MaxOccur == 2
MaxRepeatFiles == 2

RepeatRules == <<"breadcrumb", "feedback", "comments">>

\* One instance of the block of a rule.
RuleBlock(rule) ==
    CASE rule = "breadcrumb" -> <<NL, BcMark, NL, BcNav, "x", NavClose, NL>>
      [] rule = "feedback" -> <<NL, FbMark, NL, FbButton, "x", DialogClose, NL>>
      [] rule = "comments" -> <<NL, CommentsMark, NL, "x", NL, MainClose, NL>>

\* n instances of a block, other text after each.
RECURSIVE Repeated(_, _)
Repeated(block, n) == IF n = 0 THEN <<>> ELSE block \o <<"x">> \o Repeated(block, n - 1)

\* A lesson page with n instances of the block of one rule and one of each other.
RepeatPage(i, rule, n) ==
    SavedFrom(PathOf(i))
      \o Concat([r \in 1..Len(RepeatRules) |->
                    Repeated(RuleBlock(RepeatRules[r]),
                             IF RepeatRules[r] = rule THEN n ELSE 1)])

InitRepeat ==
    \E n \in 1..MaxRepeatFiles, strict \in BOOLEAN :
      \E kinds \in [1..n -> [rule : Range(RepeatRules), n : 0..MaxOccur]] :
        MainInit([strict |-> strict, translate_lesson_body |-> FALSE,
                  output_dir |-> None, in_place |-> FALSE, deepl_auth_key |-> None,
                  bs4 |-> TRUE],
                 Tokens([i \in 1..n |-> RepeatPage(i, kinds[i].rule, kinds[i].n)]))

NextRepeat == Start \/ ProcessStep \/ Summary

SpecRepeat == InitRepeat /\ [][NextRepeat]_vars

(***************************************************************************)
(* Properties.                                                             *)
(***************************************************************************)
RemovalCounters ==
    {"breadcrumb_removed", "feedback_markup_removed", "feedback_scripts_removed",
     "livewire_completed_button_removed", "spotlight_removed",
     "livewire_assets_removed", "easymde_assets_removed",
     "comments_editor_scripts_removed", "comments_section_removed"}

\* C1: with body translation disabled, process_file on the output of a first run
\* returns the same content, and on that second run every removal counter is zero
\* (only local_nav_inserted may be non-zero).
C1_SecondRunIsNoOp ==
    \A p \in 2..Len(ret) :
        (ret[p - 1].error = "" /\ ret[p].error = "")
        => /\ ret[p].updated = ret[p - 1].updated
           /\ \A c \in RemovalCounters : ret[p].stats[c] = 0

\* The page that was saved from a lesson or that declares the URL of an earlier file.
Unmappable(fs) ==
    \/ \E i \in 1..Len(fs) : ~extract_lesson_url_from_file(fs[i]).found
    \/ \E i, j \in 1..Len(fs) :
          /\ i # j
          /\ extract_lesson_url_from_file(fs[i]).found
          /\ extract_lesson_url_from_file(fs[j]).found
          /\ extract_lesson_url_from_file(fs[i]).url = extract_lesson_url_from_file(fs[j]).url

\* C2: when a file of the corpus lacks the saved-from marker, or two files declare the
\* same normalized URL, the run fails while the URL map is built, before any file is
\* processed or written.
C2_MapBuiltBeforeAnyWrite ==
    (pc # "start" /\ Unmappable(original))
    => /\ pc = "failed"
       /\ failure \in {"ValueError: Could not find saved-from lesson URL",
                       "ValueError: Duplicate lesson URL mapping"}
       /\ k = 0
       /\ written = <<>>
       /\ files = original
       /\ outfiles = <<>>

C2_Witness ==
    /\ pc = "failed"
    /\ failure = "ValueError: Duplicate lesson URL mapping"
    /\ Len(original) = 2
    /\ \A i \in 1..2 : extract_lesson_url_from_file(original[i]).found

\* What C3 says the target of one link becomes.
LinkTarget(link, c) ==
    LET key == normalize_lesson_url(link.base) IN
    IF key \notin DOMAIN c.url_to_filename THEN link.base \o link.suffix
    ELSE IF key = c.current_lesson_url /\ link.suffix # <<>> /\ Head(link.suffix) = "#"
    THEN link.suffix
    ELSE <<c.url_to_filename[key]>> \o link.suffix

\* C3: rewrite_lesson_links leaves an href alone when normalize(base) is no key of the
\* map, turns it into the suffix when it names the current lesson and the suffix starts
\* with '#', and otherwise into the mapped file name followed by the suffix; it returns
\* the number of hrefs of the last two kinds.
C3_LinksRewritten ==
    ret # <<>>
    => /\ ret[1].out =
              Concat([i \in 1..Len(call.links) |->
                         <<"x", SP>> \o Href(LinkTarget(call.links[i], call))])
              \o <<NL>>
       /\ ret[1].n =
              Cardinality({i \in 1..Len(call.links) :
                              normalize_lesson_url(call.links[i].base)
                                  \in DOMAIN call.url_to_filename})

C3_Witness ==
    /\ ret # <<>>
    /\ Len(call.links) = 2
    /\ ret[1].n = 2
    /\ LinkTarget(call.links[1], call) = <<"#", "x">>
    /\ LinkTarget(call.links[2], call) = <<"b.html", "?", "x">>

\* C4: for a URL u without trailing slash and without fragment, and any fragment x,
\* normalize_lesson_url gives the same string for u, u + "/" and u + "#" + x, also when
\* they are surrounded by whitespace.
C4_SameKey ==
    \A i \in 1..Len(ret) : i <= 6 => ret[i].key = ret[1].key

C4_Witness ==
    /\ Len(ret) >= 6
    /\ call.x # <<>>
    /\ ret[2].url = call.u \o <<"/">>
    /\ ret[2].key = call.u
    /\ ret[6].key = call.u

\* C5: the result of normalize_lesson_url holds no '#' and does not end with '/', so
\* normalizing it again changes nothing, and u + "/#x" gets the key of u.
C5_SlashAndFragmentStripped ==
    \A i \in 1..Len(ret) :
        /\ ~Contains(ret[i].key, "#")
        /\ ~EndsWithSlash(ret[i].key)
        /\ ret[i].again = ret[i].key
        /\ ret[i].url = call.u \o <<"/", "#">> \o call.x => ret[i].key = ret[1].key

\* The texts of the request b made for the result r.
Request(r, b) == batches(r.texts)[b]

\* A backend answer with another number of translated strings than were sent.
WrongCount(r, b) ==
    /\ ReplyError(call.replies[b]) = ""
    /\ Len(ReplyItems(call.replies[b], Request(r, b))) # Len(Request(r, b))

\* The article with every text node to translate replaced by its own translation.
RECURSIVE OwnTranslations(_)
OwnTranslations(texts) ==
    IF texts = <<>> THEN <<>>
    ELSE <<Translation(Head(texts))>> \o OwnTranslations(Tail(texts))

\* C6: when the backend answers a request with a number of translated strings other
\* than the number sent, the stage raises an error and leaves the text as it was; a
\* translated string never goes into a node other than the one it was made from.
C6_WrongCountFails ==
    ret # <<>>
    => /\ (\E b \in 1..ret[1].sent : WrongCount(ret[1], b))
          => (ret[1].error # "" /\ ret[1].out = call.html)
       /\ (ret[1].error = "" /\ ret[1].sent > 0)
          => \A b \in 1..ret[1].sent :
                DictTexts(ReplyItems(call.replies[b], Request(ret[1], b)))
                    = OwnTranslations(Request(ret[1], b))

\* The texts of the article of html that lie in a code or technical element.
ArticleInner(html) ==
    SubSeq(html, ArticleAt(html) + 1, First(html, ArticleAt(html) + 1, {ArticleClose}) - 1)

IsSkipNode(piece) == piece.kind = "skip"

CodeTexts(html) ==
    IF ArticleAt(html) = 0 THEN <<>>
    ELSE SelectSeq(Nodes(ArticleInner(html), 1, <<>>), IsSkipNode)

\* C7: a text node inside a script, style, pre, code, kbd, samp, var, svg or math
\* element of the article is never sent to the backend, and the stage's output holds
\* the same text in it.
C7_CodeTextKept ==
    (ret # <<>> /\ ret[1].error = "")
    => /\ \A i \in 1..Len(ret[1].texts) :
             \A j \in 1..Len(CodeTexts(call.html)) :
                ret[1].texts[i] # CodeTexts(call.html)[j].text
       /\ CodeTexts(ret[1].out) = CodeTexts(call.html)

\* C8: one pass of translate_ui_to_dutch turns "H h M min read" and "H h M min leestijd"
\* into "H u M min leestijd"; a second pass leaves it so and counts nothing.
C8_ReadingTimeConverges ==
    \A p \in 1..Len(ret) :
        /\ ret[p].out = ReadingTime(call, "u", "leestijd")
        /\ p > 1 => ret[p].n = 0

C8_Witness ==
    /\ Len(ret) = 2
    /\ call.word = "leestijd"
    /\ Len(call.H) = 2
    /\ ret[1].n = 1
    /\ ret[2].out = ReadingTime(call, "u", "leestijd")

\* The per-file count of one of the three rules that expect one match.
RuleCount(stats, rule) ==
    CASE rule = "breadcrumb" -> stats.breadcrumb_removed
      [] rule = "feedback" -> stats.feedback_markup_removed
      [] rule = "comments" -> stats.comments_section_removed

StrictRules == {"breadcrumb", "feedback", "comments"}

\* The console holds the warning line of file i for the rule.
Warned(rule, i) ==
    Line("  {p}: {c}", rule, FileName(i), RuleCount(stats_log[i], rule)) \in Range(console)

\* The files before file i whose count for the rule is not 1.
AffectedBefore(rule, i) ==
    Cardinality({j \in 1..(i - 1) : RuleCount(stats_log[j], rule) # 1})

\* C9 as stated: in strict mode the summary has a warning line, with the count, for
\* every processed file whose count for one of the three rules is not 1, however many
\* files are affected, and the run ends with exit status 0.
C9_EveryAffectedFileWarned ==
    (argv.strict /\ pc = "done")
    => /\ failure = ""
       /\ \A rule \in StrictRules : \A i \in 1..Len(stats_log) :
             RuleCount(stats_log[i], rule) # 1 => Warned(rule, i)

\* C9: in strict mode the summary has a warning line, with the count, for each of the
\* first 10 files in processing order whose count for the rule is not 1, and none for
\* later ones; the run ends with exit status 0.
C9_FirstTenAffectedFilesWarned ==
    (argv.strict /\ pc = "done")
    => /\ failure = ""
       /\ \A rule \in StrictRules : \A i \in 1..Len(stats_log) :
             RuleCount(stats_log[i], rule) # 1
             => (Warned(rule, i) <=> AffectedBefore(rule, i) < WarnLimit)

C9_Witness ==
    /\ argv.strict
    /\ pc = "done"
    /\ Len(stats_log) > WarnLimit
    /\ \A i \in 1..Len(stats_log) : RuleCount(stats_log[i], "feedback") = 0
    /\ Warned("feedback", WarnLimit)
    /\ ~Warned("feedback", WarnLimit + 1)

\* C10: a file is written only to an alternate output location (output directory given
\* and in-place not requested), where it is always written and the original is left
\* as it was, or to the original path when the content changed.
C10_WrittenOnlyWhenDue ==
    \A i \in 1..k :
        IF argv.output_dir # None /\ ~argv.in_place
        THEN /\ [dir |-> argv.output_dir, name |-> FileName(i)] \in Range(written)
             /\ files[i] = original[i]
        ELSE /\ \A w \in Range(written) : w.dir = CorpusDir
             /\ ([dir |-> CorpusDir, name |-> FileName(i)] \in Range(written))
                    <=> files[i] # original[i]

\* The local-navigation block: the marker, a newline and the header of the template.
NavBlock == SubSeq(LOCAL_NAV_HTML, 2, Len(LOCAL_NAV_HTML) - 2)

\* The number of local-navigation blocks in s.
NavBlockCount(s) ==
    Cardinality({i \in 1..(Len(s) - Len(NavBlock) + 1) :
                    SubSeq(s, i, i + Len(NavBlock) - 1) = NavBlock})

\* C11: after ensure_local_site_nav, content that held the local-navigation marker or
\* the legacy "Navigation removed" marker holds exactly one local-navigation block and
\* the count is 1; content with neither marker is returned unchanged with count 0.
C11_ExactlyOneNavBlock ==
    \A i \in 1..Len(ret) :
        IF Contains(call.html, LOCAL_NAV_MARKER) \/ Contains(call.html, NavRemovedMark)
        THEN NavBlockCount(ret[i].out) = 1 /\ ret[i].n = 1
        ELSE ret[i].out = call.html /\ ret[i].n = 0

\* The expression of a rule.
RuleRe(rule) ==
    CASE rule = "breadcrumb" -> "BREADCRUMB_BLOCK_RE"
      [] rule = "feedback" -> "FEEDBACK_MARKUP_RE"
      [] rule = "comments" -> "COMMENTS_SECTION_RE"

\* The number of instances of the block of a rule in a text.
Instances(rule, text) == subn(RuleRe(rule), NoEnv, text, 0).n

\* The files main recorded as anomalous for a rule.
Missing(rule) ==
    CASE rule = "breadcrumb" -> missing_breadcrumb
      [] rule = "feedback" -> missing_feedback
      [] rule = "comments" -> missing_comments

\* The count of a rule for file i is the number of instances removed from the file.
CountIsRemoved(rule, i) ==
    RuleCount(stats_log[i], rule)
        = Instances(rule, original[i]) - Instances(rule, files[i])

\* C12: for the breadcrumb, feedback-markup and comments-section rules the count of a
\* processed file is the number of instances of the block removed from it, and a file
\* that holds the block more than once is recorded as anomalous with a count greater
\* than 1, in default mode and in strict mode.
C12_RepeatedBlockFlagged ==
    \A rule \in StrictRules : \A i \in 1..Len(stats_log) :
        /\ CountIsRemoved(rule, i)
        /\ Instances(rule, original[i]) > 1
           => \E m \in Range(Missing(rule)) : m.file = FileName(i) /\ m.count > 1

\* Position q of b starts a closing main-content tag line: a newline that only
\* whitespace separates from </main>.
ClosingLine(b, q) ==
    /\ b[q] = NL
    /\ \E r \in (q + 1)..Len(b) :
          b[r] = MainClose /\ \A t \in (q + 1)..(r - 1) : b[t] \in Whitespace

\* The start of the first closing main-content tag line after position p, 0 when
\* there is none.
FirstClosingLine(b, p) ==
    LET Q0 == {q \in (p + 1)..Len(b) : ClosingLine(b, q)}
    IN IF Q0 = {} THEN 0 ELSE CHOOSE q \in Q0 : \A q2 \in Q0 : q <= q2

\* The positions of the comments-section markers of b.
Markers(b) == {p \in 1..Len(b) : b[p] = CommentsMark}

\* The newlines s of b that only whitespace separates from a comments-section marker
\* which a closing main-content tag line follows.
MarkerLines(b) ==
    {s \in 1..Len(b) :
        /\ b[s] = NL
        /\ \E p \in Markers(b) :
              /\ s < p
              /\ \A t \in (s + 1)..(p - 1) : b[t] \in Whitespace
              /\ FirstClosingLine(b, p) # 0}

\* The marker after the newline s.
MarkerAfter(b, s) == CHOOSE p \in Markers(b) : s < p /\ \A p2 \in Markers(b) : s < p2 => p <= p2

\* C13 as stated: the comments-section stage runs on what link rewriting left and ends
\* process_file; it deletes only the text from a marker up to, but not including, the
\* first following closing main-content tag line, everything before the marker and
\* from the closing tag line on being unchanged; when no closing tag line follows a
\* marker nothing is removed and the count is 0.
C13_OnlyFromMarkerDeleted ==
    \A i \in 1..Len(ret) :
        LET b == ret[i].linked.updated
            u == ret[i].final.updated
            n == ret[i].final.stats.comments_section_removed
        IN /\ ret[i].final.stats.lesson_links_rewritten
                 = ret[i].linked.stats.lesson_links_rewritten
           /\ n \in {0, 1}
           /\ n = 0 => u = b
           /\ n = 1 => \E p \in Markers(b) :
                          /\ FirstClosingLine(b, p) # 0
                          /\ u = SubSeq(b, 1, p - 1)
                                   \o SubSeq(b, FirstClosingLine(b, p), Len(b))
           /\ (\A p \in Markers(b) : FirstClosingLine(b, p) = 0) => n = 0 /\ u = b

\* C13: the comments-section stage runs on what link rewriting left and ends
\* process_file; it replaces by one newline the text from the first newline that only
\* whitespace separates from a marker which a closing main-content tag line follows
\* (so the blank lines and the indentation before the marker go with it) up to, but
\* not including, that closing tag line; everything before that newline and from the
\* closing tag line on is unchanged; when there is no such newline nothing is removed
\* and the count is 0.
C13_MarkerLineToClosingLineReplaced ==
    \A i \in 1..Len(ret) :
        LET b == ret[i].linked.updated
            u == ret[i].final.updated
            n == ret[i].final.stats.comments_section_removed
            S0 == MarkerLines(b)
        IN /\ ret[i].final.stats.lesson_links_rewritten
                 = ret[i].linked.stats.lesson_links_rewritten
           /\ IF S0 = {} THEN n = 0 /\ u = b
              ELSE LET s == CHOOSE s1 \in S0 : \A s2 \in S0 : s1 <= s2
                   IN /\ n = 1
                      /\ u = SubSeq(b, 1, s - 1) \o <<NL>>
                               \o SubSeq(b, FirstClosingLine(b, MarkerAfter(b, s)), Len(b))

\* An indented marker after a rewritten link: the indentation went with the section.
C13_Witness ==
    /\ ret # <<>>
    /\ ret[1].final.stats.comments_section_removed = 1
    /\ ret[1].final.stats.lesson_links_rewritten = 1
    /\ \E s \in MarkerLines(ret[1].linked.updated) :
          MarkerAfter(ret[1].linked.updated, s) > s + 1
    /\ Contains(ret[1].final.updated, MainClose)
    /\ ~Contains(ret[1].final.updated, CommentsMark)

\* The answers by which the backend fails: an HTTP error, a transport error, and a
\* payload without the list of translations.
FailureKinds == {"http_error", "url_error", "malformed"}

\* The requests the backend failed.
FailedRequests == {b \in 1..Len(requests) : requests[b].reply \in FailureKinds}

CredentialError ==
    "RuntimeError: Lesson-body translation requested but no DeepL auth key provided"

\* The run ended with `error` while file kf was processed: the files before kf are the
\* ones processed and written, file kf and the later ones are as they were, and
\* nothing was printed.
AbortedAt(kf, error) ==
    /\ pc = "failed"
    /\ failure = error
    /\ k = kf - 1
    /\ Len(stats_log) = k
    /\ console = <<>>
    /\ \A w \in Range(written) : \E i \in 1..k : w.name = FileName(i)
    /\ \A j \in kf..Len(files) : files[j] = original[j]
    /\ \A j \in DOMAIN outfiles : j <= k

\* C14: with body translation enabled, when the backend fails a request of file k, or
\* the credential is missing, the run ends there with that error: the failed request
\* is the last one made (no retry), file k is not written and has no stats, no later
\* file is processed or written, no summary is printed, no step follows the failure,
\* and the failing step leaves the files written before as they are.
C14_TranslationFailureAborts ==
    /\ [](\A b \in FailedRequests :
             /\ argv.translate_lesson_body
             /\ b = Len(requests)
             /\ AbortedAt(requests[b].file, ReplyError(requests[b].reply)))
    /\ []((/\ argv.translate_lesson_body
           /\ argv.deepl_auth_key = None
           /\ Setup(argv, original).failure = "")
          => \/ pc = "start"
             \/ pc = "loop" /\ k = 0 /\ written = <<>> /\ console = <<>>
             \/ AbortedAt(1, CredentialError))
    /\ [][pc # "failed"]_vars
    /\ [][pc' = "failed"
          => files' = files /\ outfiles' = outfiles /\ written' = written]_vars

\* The second request of the second file failed after the first file was written.
C14_Witness ==
    /\ pc = "failed"
    /\ k = 1
    /\ Len(written) = 1
    /\ Len(requests) = 3
    /\ requests[2] = [file |-> 2, reply |-> "ok"]
    /\ requests[3] = [file |-> 2, reply |-> "http_error"]

====
